---- MODULE Spec2Model ----
(***************************************************************************)
(* Scheduled price change and audit engine of the LLM pricing tool.        *)
(*                                                                         *)
(* The model follows src/server/storage.ts (the two IStorage               *)
(* implementations, MemStorage and PostgresStorage), the route handlers of *)
(* src/server/routes.ts that call them, and the scheduler set up in        *)
(* src/unnamed/part_001.                                                   *)
(*                                                                         *)
(* Execution model.  Every handler is an async function.  A task (one      *)
(* request handler or one timer callback) is a position `pc` in that       *)
(* function plus its local variables.  One action is one storage call of   *)
(* one task with the code around it.  With PostgresStorage every storage   *)
(* call awaits the database, and any other task may run before the task    *)
(* goes on.  With MemStorage the promise a storage call returns is already *)
(* resolved, so the code after the `await` runs as a microtask, before any *)
(* other request or timer callback: the task keeps the JavaScript thread   *)
(* (`cpu`) until it finishes or awaits the network (axios).                *)
(*                                                                         *)
(* Prices are integers in units of 1/100 (12.70 is 1270).  The inputs are  *)
(* drawn from values that the numeric(10,4) columns of shared/schema.ts    *)
(* and the String()/Number() conversions of storage.ts represent exactly.  *)
(***************************************************************************)
EXTENDS Integers, Sequences, FiniteSets, TLC

\* ---------------------------------------------------------------- bounds
NumTasks == 2
MaxSched == 2
NarrowSched == 1
SweepSched == 3
MaxHist == 3
MaxClock == 1
MaxFaults == 1
MaxBatch == 1
WideBatch == 2

\* ------------------------------------------------------ program constants
DefaultPercentageMarkup == 25
DefaultFlatFeeMarkup == 20

\* ----------------------------------------------------------- input sets
Items == {"m1", "m2"}
TaskIds == 1..NumTasks
SchedIds == 1..SweepSched
RefPrices == {1000}
\* Prices an operator enters by hand, and prices an operator schedules; each
\* with one negative value.  1000 marked up by the defaults is 1270.
EditPrices == {2000, -100}
SchedPrices == {1500, -100}
FeedItems == {"m1"}
\* Reference prices of the wider feeds.
WideRefPrices == {1000, 2000}
\* Effective dates a request may name: within the ticks of the clock, and
\* also one past its last tick.
NearDates == 1..MaxClock
FarDates == 1..MaxClock + 1
Backends == {"mem", "pg"}

\* ------------------------------------------------------------- helpers
None == <<>>
Some(x) == <<x>>
IsSome(o) == Len(o) = 1
Get(o) == o[1]

RECURSIVE SumOver(_, _)
SumOver(f, S) ==
  IF S = {} THEN 0
  ELSE LET x == CHOOSE y \in S : TRUE IN f[x] + SumOver(f, S \ {x})

\* The sequences over S without repetition, of length at most n.
RECURSIVE Arrangements(_, _)
Arrangements(S, n) ==
  IF n = 0 \/ S = {} THEN {<<>>}
  ELSE {<<>>} \cup UNION {{<<x>> \o r : r \in Arrangements(S \ {x}, n - 1)} : x \in S}

\* The orderings of all of S.
Permutations_(S) == {p \in Arrangements(S, Cardinality(S)) : Len(p) = Cardinality(S)}

\* S in increasing order.
RECURSIVE Ascending(_)
Ascending(S) ==
  IF S = {} THEN <<>>
  ELSE LET x == CHOOSE y \in S : \A z \in S : y <= z IN <<x>> \o Ascending(S \ {x})

\* The bodies of POST /api/price-settings: each field absent or a number,
\* possibly negative.  SetBodies change the settings, PctBodies only the
\* percentage; SameBodies send the percentage that is already in force (the
\* form saved as it is).
SetBodies == [pct : {None, Some(50), Some(-5)}, flat : {None, Some(30), Some(-1)}]
SameBodies == [pct : {Some(DefaultPercentageMarkup), Some(-5)}, flat : {None}]
PctBodies == [pct : {Some(50), Some(-5)}, flat : {None}]

VARIABLES
  backend,      \* which IStorage the process constructed: "mem" or "pg"
  clock,        \* new Date(), in ticks
  models,       \* the catalog: item id -> [ref, sug, act]
  settings,     \* the rows of price_settings, in insertion order
  sched,        \* the registry: scheduled-change id -> row
  nextSchedId,  \* MemStorage.scheduledPriceId / the serial of scheduled_prices
  hist,         \* the ledger, in insertion order (ids 1..Len(hist))
  tasks,        \* the handlers and timer callbacks in flight; `before` and `w`
                \* are history fields: the catalog and ledger as the current
                \* storage call found them, and what the call has written
  cpu,          \* the task that holds the JavaScript thread, or 0
  faults,       \* database calls that have failed so far
  timer,        \* the scheduler of the listen callback: "boot" (the setTimeout
                \* is pending), "initial" (the initial check runs), "armed"
                \* (setInterval has been called)
  audit         \* history variables used to state the claims

vars == <<backend, clock, models, settings, sched, nextSchedId, hist, tasks, cpu, faults, timer, audit>>

Idle ==
  [op |-> "idle", pc |-> "idle", id |-> 0, item |-> "", price |-> 0, src |-> "",
   eff |-> 0, list |-> <<>>, idx |-> 0, m |-> None, sp |-> None, count |-> 0,
   body |-> [pct |-> None, flat |-> None], sug |-> 0, rsv |-> 0, res |-> "", before |-> None, w |-> 0,
   solo |-> FALSE, out |-> <<>>, skipped |-> {}, by |-> ""]

Init ==
  /\ backend \in Backends
  /\ clock = 0
  /\ models = <<>>
  /\ settings = IF backend = "mem"
                THEN <<[pct |-> DefaultPercentageMarkup, flat |-> DefaultFlatFeeMarkup]>>
                ELSE <<>>
  /\ sched = <<>>
  /\ nextSchedId = 1
  /\ hist = <<>>
  /\ tasks = [t \in TaskIds |-> Idle]
  /\ cpu = 0
  /\ faults = 0
  /\ timer = "boot"
  /\ audit = [catWrites |-> [i \in SchedIds |-> 0],  \* catalog writes caused by change i
              marks |-> [i \in SchedIds |-> 0],      \* times change i was marked applied
              won |-> [i \in SchedIds |-> 0],        \* successful applies of i that read applied = false
              entries |-> [i \in SchedIds |-> 0],    \* history entries of applies of i that read applied = false
              setWrites |-> [i \in Items |-> 0],     \* catalog writes of updateModelActualPrice
              byUpdate |-> [i \in Items |-> FALSE], \* updateModelActualPrice wrote i's row last
              lastSet |-> [i \in Items |-> -1],      \* the price updateModelActualPrice wrote last
              origin |-> [i \in Items |-> ""],       \* the handler that created i's row
              first |-> [i \in Items |-> -1],       \* the actual price i's row was created with
              cancelled |-> {},                     \* the changes whose cancel succeeded
              initial |-> ""]                       \* how the initial check of the scheduler ended

\* ----------------------------------------------------- scheduling helpers
\* Task t may run the code at position p: it is there, and no other task
\* holds the JavaScript thread.
At(t, p) == tasks[t].pc = p /\ cpu \in {0, t}

\* After a storage call: with MemStorage the task keeps the thread, with
\* PostgresStorage it waits for the database.  A handler that has finished
\* sends its response before anything else runs (Return).
Then(t) ==
  cpu' = IF tasks'[t].pc = "done" \/ backend = "mem" THEN t ELSE 0

\* After a call that awaits the network: the task waits with either storage.
Yield(t) ==
  cpu' = IF tasks'[t].pc = "done" THEN t ELSE 0

\* Task t goes on as rec.  (solo, kept for the properties: when a handler
\* starts, a settings update in flight no longer runs alone.)
Upd(t, rec) ==
  tasks' = [u \in TaskIds |->
              IF u = t THEN rec
              ELSE IF tasks[t].pc = "idle" THEN [tasks[u] EXCEPT !.solo = FALSE]
              ELSE tasks[u]]

\* Room in the bounded ledger for n more entries, counting the entries the
\* tasks in flight may still write.
Room(n) == Len(hist) + SumOver([u \in TaskIds |-> tasks[u].rsv], TaskIds) + n <= MaxHist

\* Task slots are interchangeable: a new handler takes the lowest free one.
FreeSlot(t) ==
  /\ cpu = 0
  /\ tasks[t].op = "idle"
  /\ \A u \in TaskIds : u < t => tasks[u].op # "idle"

\* The handler has sent its response (or the timer callback has returned).
Finish(tk, r) == [tk EXCEPT !.pc = "done", !.res = r, !.rsv = 0]

\* ------------------------------------------------------------- storage
\* Mutant of createPriceHistory: the new row takes the place of the newest
\* one instead of being appended after it.
createPriceHistoryOverwrites(h, modelId, previousPrice, newPrice, changeSource, cause) ==
  LET row == [id |-> Len(h), modelId |-> modelId, previousPrice |-> previousPrice,
              newPrice |-> newPrice, changedAt |-> clock, changeSource |-> changeSource,
              cause |-> cause]
  IN IF h = <<>> THEN <<[row EXCEPT !.id = 1]>> ELSE [h EXCEPT ![Len(h)] = row]

\* createPriceHistory: the row appended to the ledger.  `cause` is not a
\* column: it records the scheduled change that caused the entry (0: none).
createPriceHistory(h, modelId, previousPrice, newPrice, changeSource, cause) ==
  Append(h, [id |-> Len(h) + 1, modelId |-> modelId, previousPrice |-> previousPrice,
             newPrice |-> newPrice, changedAt |-> clock, changeSource |-> changeSource,
             cause |-> cause])

\* Mutant of WriteActualPrice: both storages write the whole row as it was
\* read, with the new price.
WriteActualPriceWholeRow(ms, id, existingModel, actualPrice) ==
  [x \in DOMAIN ms \cup {id} |->
     IF x = id THEN [existingModel EXCEPT !.act = actualPrice] ELSE ms[x]]

\* The write of updateModelActualPrice.  MemStorage stores a copy of the row
\* it read before the await (existingModel) with the new price; Postgres
\* updates the actual_price column of the current row.
WriteActualPrice(ms, id, existingModel, actualPrice) ==
  IF backend = "mem"
  THEN [x \in DOMAIN ms \cup {id} |->
          IF x = id THEN [existingModel EXCEPT !.act = actualPrice] ELSE ms[x]]
  ELSE [ms EXCEPT ![id].act = actualPrice]

\* Mutant of MarkApplied: the flag is not stored.
MarkAppliedLost(sc, id, scheduledPrice) == sc

\* Mutant of MarkApplied: both storages put the entry (back) under its id.
MarkAppliedPutsBack(sc, id, scheduledPrice) ==
  [x \in DOMAIN sc \cup {id} |->
     IF x = id THEN [scheduledPrice EXCEPT !.applied = TRUE] ELSE sc[x]]

\* The last statement of applyScheduledPrice.  MemStorage sets the flag on
\* the object it read and puts it (back) into the map; Postgres updates the
\* row with that id, if there is one.
MarkApplied(sc, id, scheduledPrice) ==
  IF backend = "mem"
  THEN [x \in DOMAIN sc \cup {id} |->
          IF x = id THEN [scheduledPrice EXCEPT !.applied = TRUE] ELSE sc[x]]
  ELSE IF id \in DOMAIN sc THEN [sc EXCEPT ![id].applied = TRUE] ELSE sc

\* Mutant of DueIds: an entry is due only after its effective date.
DueIdsAfter(sc, now) == {i \in DOMAIN sc : ~sc[i].applied /\ sc[i].effectiveDate < now}

\* The filter of applyDueScheduledPrices.
DueIds(sc, now) == {i \in DOMAIN sc : ~sc[i].applied /\ sc[i].effectiveDate <= now}

\* The entries of an update-prices body that the route passes on.
ValidEntry(e) == e.price >= 0

FirstValid(list, from) ==
  IF \E j \in from..Len(list) : ValidEntry(list[j])
  THEN CHOOSE j \in from..Len(list) :
         ValidEntry(list[j]) /\ \A k \in from..(j - 1) : ~ValidEntry(list[k])
  ELSE 0

\* What a storage call that is about to start finds: the item's actual price
\* (-1: no such item) and the length of the ledger.
Found(item) ==
  Some([act |-> IF item \in DOMAIN models THEN models[item].act ELSE -1, nh |-> Len(hist)])

\* ------------------------------------------------------- control flow
\* applyDueScheduledPrices after the apply of one entry returned (ok) or
\* threw: the next entry of duePrices, or the end of the sweep.
NextDue(tk, ok) ==
  LET n == tk.count + (IF ok THEN 1 ELSE 0) IN
  IF tk.idx < Len(tk.list)
  THEN [tk EXCEPT !.count = n, !.idx = tk.idx + 1, !.id = tk.list[tk.idx + 1],
                  !.pc = "a_read", !.m = None, !.sp = None, !.before = None, !.w = 0]
  ELSE Finish([tk EXCEPT !.count = n], "ok")

\* POST /api/update-prices after updateModelActualPrice returned: the next
\* entry of the body that passes the check, or the response.
NextEntry(tk, from) ==
  LET j == FirstValid(tk.list, from) IN
  IF j = 0 THEN Finish(tk, "ok")
  ELSE [tk EXCEPT !.idx = j, !.item = tk.list[j].item, !.price = tk.list[j].price,
                  !.src = "manual", !.pc = "u_read", !.m = None,
                  !.before = Found(tk.list[j].item), !.w = 0]

ApplyPcs == {"a_read", "u_read", "u_hist", "u_write", "a_mark"}

\* Mutant of Throw: no try/catch around the entries of a sweep.
ThrowAbortsSweep(tk, err) == Finish(tk, err)

\* An exception thrown at the task's position: the try/catch around each
\* entry of a sweep catches it and goes on; any other handler answers with
\* the error.  (skipped, kept for the properties: the entries of this sweep
\* whose apply threw.)
Throw(tk, err) ==
  IF tk.op = "sweep" /\ tk.pc \in ApplyPcs
  THEN LET r == IF tk.pc \in {"a_read", "u_read", "u_hist"} THEN tk.rsv - 1 ELSE tk.rsv
       IN NextDue([tk EXCEPT !.rsv = r, !.skipped = @ \cup {tk.id}], FALSE)
  ELSE Finish(tk, err)

\* updateModelActualPrice returned to its caller.
AfterUpdate(tk) ==
  IF tk.op = "edit" THEN NextEntry(tk, tk.idx + 1) ELSE [tk EXCEPT !.pc = "a_mark"]

\* applyScheduledPrice returned to its caller.
AfterApply(tk) ==
  IF tk.op = "sweep" THEN NextDue(tk, TRUE) ELSE Finish(tk, "ok")

\* ------------------------------------------------------------- actions
Tick ==
  /\ cpu = 0
  /\ clock < MaxClock
  /\ clock' = clock + 1
  /\ UNCHANGED <<backend, timer, models, settings, sched, nextSchedId, hist, tasks, cpu, faults, audit>>

\* Mutant of Return: the initial check calls setInterval inside its try
\* block, so only when applyDueScheduledPrices did not throw.
ReturnArmsInTry(t) ==
  /\ At(t, "done")
  /\ Upd(t, Idle)
  /\ cpu' = 0
  /\ timer' = IF tasks[t].by = "initial" /\ tasks[t].res = "ok" THEN "armed" ELSE timer
  /\ audit' = IF tasks[t].by = "initial" THEN [audit EXCEPT !.initial = tasks[t].res] ELSE audit
  /\ UNCHANGED <<backend, clock, models, settings, sched, nextSchedId, hist, faults>>

\* The response has been delivered; the slot is free again.  The callback of
\* the initial check goes on, after its try/catch, to call setInterval.
Return(t) ==
  /\ At(t, "done")
  /\ Upd(t, Idle)
  /\ cpu' = 0
  /\ timer' = IF tasks[t].by = "initial" THEN "armed" ELSE timer
  /\ audit' = IF tasks[t].by = "initial" THEN [audit EXCEPT !.initial = tasks[t].res] ELSE audit
  /\ UNCHANGED <<backend, clock, models, settings, sched, nextSchedId, hist, faults>>

\* ---- updateModelActualPrice(id, actualPrice, source)
\* Mutant of UpdateRead: no not-found check; a missing item is taken as a
\* row with price 0.
UpdateReadNoCheck(t) ==
  LET tk == tasks[t]
      row == IF tk.item \in DOMAIN models THEN models[tk.item]
             ELSE [ref |-> 0, sug |-> 0, act |-> 0] IN
  /\ At(t, "u_read")
  /\ Upd(t, [tk EXCEPT !.m = Some(row), !.pc = "u_hist"])
  /\ Then(t)
  /\ UNCHANGED <<backend, timer, clock, models, settings, sched, nextSchedId, hist, faults, audit>>

\* models.get(id) / getModelById(id), and the not-found check.
UpdateRead(t) ==
  LET tk == tasks[t] IN
  /\ At(t, "u_read")
  /\ IF tk.item \in DOMAIN models
     THEN Upd(t, [tk EXCEPT !.m = Some(models[tk.item]), !.pc = "u_hist"]) /\ Then(t)
     ELSE Upd(t, Throw(tk, "NotFound")) /\ Then(t)
  /\ UNCHANGED <<backend, timer, clock, models, settings, sched, nextSchedId, hist, faults, audit>>

\* Mutant of UpdateHistory: the history entry is not written.
UpdateHistoryOmitted(t) ==
  LET tk == tasks[t] IN
  /\ At(t, "u_hist")
  /\ Upd(t, [tk EXCEPT !.pc = "u_write", !.rsv = tk.rsv - 1, !.w = 1])
  /\ Then(t)
  /\ UNCHANGED <<backend, timer, clock, models, settings, sched, nextSchedId, hist, faults, audit>>

\* await this.createPriceHistory({modelId, previousPrice, newPrice, changeSource})
UpdateHistory(t) ==
  LET tk == tasks[t] IN
  /\ At(t, "u_hist")
  /\ hist' = createPriceHistory(hist, tk.item, Get(tk.m).act, tk.price, tk.src,
                                IF tk.src = "scheduled" THEN tk.id ELSE 0)
  /\ audit' = IF tk.src = "scheduled" /\ ~Get(tk.sp).applied
              THEN [audit EXCEPT !.entries[tk.id] = @ + 1] ELSE audit
  /\ Upd(t, [tk EXCEPT !.pc = "u_write", !.rsv = tk.rsv - 1, !.w = 1])
  /\ Then(t)
  /\ UNCHANGED <<backend, timer, clock, models, settings, sched, nextSchedId, faults>>

\* this.models.set(id, updatedModel) / UPDATE models SET actual_price ...,
\* and the return to the caller.
UpdateWrite(t) ==
  LET tk == tasks[t] IN
  /\ At(t, "u_write")
  /\ IF backend = "pg" /\ tk.item \notin DOMAIN models
     THEN /\ Upd(t, Throw(tk, "NotFound"))
          /\ UNCHANGED <<models, audit>>
     ELSE /\ models' = WriteActualPrice(models, tk.item, Get(tk.m), tk.price)
          /\ audit' = [audit EXCEPT
                         !.setWrites[tk.item] = @ + 1,
                         !.byUpdate[tk.item] = TRUE,
                         !.lastSet[tk.item] = tk.price,
                         !.catWrites = IF tk.src = "scheduled"
                                       THEN [@ EXCEPT ![tk.id] = @ + 1] ELSE @]
          /\ Upd(t, AfterUpdate([tk EXCEPT !.w = 2]))
  /\ Then(t)
  /\ UNCHANGED <<backend, timer, clock, settings, sched, nextSchedId, hist, faults>>

\* ---- POST /api/update-prices
\* The bodies: Object.entries(actualPrices), one entry per model id.
Bodies ==
  {b \in Arrangements({[item |-> i, price |-> p] : i \in Items, p \in EditPrices}, MaxBatch) :
     \A j, k \in 1..Len(b) : j # k => b[j].item # b[k].item}

\* The handler starts: it skips the entries that are not numbers >= 0 and
\* calls updateModelActualPrice for the first one that is.
StartEdit(t) ==
  /\ FreeSlot(t)
  /\ \E list \in Bodies :
       LET n == Cardinality({j \in 1..Len(list) : ValidEntry(list[j])}) IN
       /\ list # <<>>
       /\ Room(n)
       /\ Upd(t, NextEntry([Idle EXCEPT !.op = "edit", !.list = list, !.rsv = n], 1))
  /\ Then(t)
  /\ UNCHANGED <<backend, timer, clock, models, settings, sched, nextSchedId, hist, faults, audit>>

\* The bodies with up to WideBatch entries.
WideBodies ==
  {b \in Arrangements({[item |-> i, price |-> p] : i \in Items, p \in EditPrices}, WideBatch) :
     \A j, k \in 1..Len(b) : j # k => b[j].item # b[k].item}

\* The handler starts with one of the wider bodies.
StartWideEdit(t) ==
  /\ FreeSlot(t)
  /\ \E list \in WideBodies :
       LET n == Cardinality({j \in 1..Len(list) : ValidEntry(list[j])}) IN
       /\ list # <<>>
       /\ Room(n)
       /\ Upd(t, NextEntry([Idle EXCEPT !.op = "edit", !.list = list, !.rsv = n], 1))
  /\ Then(t)
  /\ UNCHANGED <<backend, timer, clock, models, settings, sched, nextSchedId, hist, faults, audit>>

\* ---- applyScheduledPrice(id)
\* POST /api/scheduled-prices/:id/apply: the route's own existence check.
StartApply(t) ==
  /\ FreeSlot(t)
  /\ Room(1)
  /\ \E id \in SchedIds :
       LET tk == [Idle EXCEPT !.op = "apply", !.id = id, !.rsv = 1] IN
       IF id \in DOMAIN sched
       THEN Upd(t, [tk EXCEPT !.pc = "a_read"])
       ELSE Upd(t, Finish(tk, "NotFound"))
  /\ Then(t)
  /\ UNCHANGED <<backend, timer, clock, models, settings, sched, nextSchedId, hist, faults, audit>>

\* Mutant of ApplyRead: the entry is marked applied as soon as it is read,
\* before updateModelActualPrice is called.
ApplyReadMarksFirst(t) ==
  LET tk == tasks[t] IN
  /\ At(t, "a_read")
  /\ IF tk.id \in DOMAIN sched
     THEN /\ Upd(t, [tk EXCEPT !.sp = Some(sched[tk.id]), !.item = sched[tk.id].modelId,
                               !.price = sched[tk.id].scheduledPrice, !.src = "scheduled",
                               !.pc = "u_read", !.before = Found(sched[tk.id].modelId)])
          /\ sched' = [sched EXCEPT ![tk.id].applied = TRUE]
          /\ audit' = [audit EXCEPT !.marks[tk.id] = @ + 1]
          /\ Then(t)
     ELSE Upd(t, Throw(tk, "NotFound")) /\ Then(t) /\ UNCHANGED <<sched, audit>>
  /\ UNCHANGED <<backend, timer, clock, models, settings, nextSchedId, hist, faults>>

\* this.scheduledPrices.get(id) / getScheduledPriceById(id), the not-found
\* check, and Number(scheduledPrice.scheduledPrice).
ApplyRead(t) ==
  LET tk == tasks[t] IN
  /\ At(t, "a_read")
  /\ IF tk.id \in DOMAIN sched
     THEN Upd(t, [tk EXCEPT !.sp = Some(sched[tk.id]), !.item = sched[tk.id].modelId,
                            !.price = sched[tk.id].scheduledPrice, !.src = "scheduled",
                            !.pc = "u_read", !.before = Found(sched[tk.id].modelId)])
          /\ Then(t)
     ELSE Upd(t, Throw(tk, "NotFound")) /\ Then(t)
  /\ UNCHANGED <<backend, timer, clock, models, settings, sched, nextSchedId, hist, faults, audit>>

\* Mark the scheduled price as applied, and return.
ApplyMark(t) ==
  LET tk == tasks[t] IN
  /\ At(t, "a_mark")
  /\ sched' = MarkApplied(sched, tk.id, Get(tk.sp))
  /\ audit' = [audit EXCEPT !.marks[tk.id] = @ + 1,
                             !.won[tk.id] = IF Get(tk.sp).applied THEN @ ELSE @ + 1]
  /\ Upd(t, AfterApply(tk))
  /\ Then(t)
  /\ UNCHANGED <<backend, timer, clock, models, settings, nextSchedId, hist, faults>>

\* ---- applyDueScheduledPrices()
\* The timer callback or POST /api/scheduled-prices/apply-due: now, the
\* selection of the due entries (Map order with MemStorage, any order from
\* the SELECT without ORDER BY), and the loop's first entry.
StartSweep(t) ==
  /\ FreeSlot(t)
  /\ LET due == DueIds(sched, clock) IN
     /\ Room(Cardinality(due))
     /\ \E list \in (IF backend = "mem" THEN {Ascending(due)} ELSE Permutations_(due)) :
          LET tk == [Idle EXCEPT !.op = "sweep", !.list = list, !.rsv = Len(list)] IN
          IF list = <<>>
          THEN Upd(t, Finish(tk, "ok"))
          ELSE Upd(t, [tk EXCEPT !.idx = 1, !.id = list[1], !.pc = "a_read"])
  /\ Then(t)
  /\ UNCHANGED <<backend, timer, clock, models, settings, sched, nextSchedId, hist, faults, audit>>

\* ---- the scheduler of the listen callback
\* A timer callback calls applyDueScheduledPrices: the selection and the
\* loop's first entry, or, with PostgresStorage, the rejection of the
\* SELECT, which the callback's catch logs.
TimerSweep(t, by) ==
  /\ FreeSlot(t)
  /\ \/ LET due == DueIds(sched, clock) IN
        /\ Room(Cardinality(due))
        /\ \E list \in (IF backend = "mem" THEN {Ascending(due)} ELSE Permutations_(due)) :
             LET tk == [Idle EXCEPT !.op = "sweep", !.by = by, !.list = list,
                                    !.rsv = Len(list)] IN
             IF list = <<>>
             THEN Upd(t, Finish(tk, "ok"))
             ELSE Upd(t, [tk EXCEPT !.idx = 1, !.id = list[1], !.pc = "a_read"])
        /\ UNCHANGED faults
     \/ /\ backend = "pg"
        /\ faults < MaxFaults
        /\ faults' = faults + 1
        /\ Upd(t, Finish([Idle EXCEPT !.op = "sweep", !.by = by], "Internal"))
  /\ Then(t)
  /\ UNCHANGED <<backend, clock, models, settings, sched, nextSchedId, hist, audit>>

\* setTimeout(..., 10000) fires: the initial check.
TimerInitial(t) ==
  /\ timer = "boot"
  /\ timer' = "initial"
  /\ TimerSweep(t, "initial")

\* setInterval(..., checkInterval) fires: a recurring check.
TimerInterval(t) ==
  /\ timer = "armed"
  /\ timer' = timer
  /\ TimerSweep(t, "interval")

\* ---- cancelScheduledPrice(id)
\* Mutant of StartCancel: no check of the applied flag.
StartCancelAnyEntry(t) ==
  /\ FreeSlot(t)
  /\ \E id \in SchedIds :
       LET tk == [Idle EXCEPT !.op = "cancel", !.id = id] IN
       IF id \notin DOMAIN sched THEN Upd(t, Finish(tk, "NotFound")) /\ Then(t)
       ELSE Upd(t, [tk EXCEPT !.pc = "c_del"]) /\ Then(t)
  /\ UNCHANGED <<backend, timer, clock, models, settings, sched, nextSchedId, hist, faults, audit>>

\* this.scheduledPrices.get(id) / getScheduledPriceById(id) and the two
\* checks.
StartCancel(t) ==
  /\ FreeSlot(t)
  /\ \E id \in SchedIds :
       LET tk == [Idle EXCEPT !.op = "cancel", !.id = id] IN
       IF id \notin DOMAIN sched THEN Upd(t, Finish(tk, "NotFound")) /\ Then(t)
       ELSE IF sched[id].applied THEN Upd(t, Finish(tk, "FailedPrecondition")) /\ Then(t)
       ELSE Upd(t, [tk EXCEPT !.pc = "c_del"]) /\ Then(t)
  /\ UNCHANGED <<backend, timer, clock, models, settings, sched, nextSchedId, hist, faults, audit>>

\* this.scheduledPrices.delete(id) / DELETE FROM scheduled_prices WHERE id
CancelDelete(t) ==
  LET tk == tasks[t] IN
  /\ At(t, "c_del")
  /\ sched' = [x \in DOMAIN sched \ {tk.id} |-> sched[x]]
  /\ audit' = [audit EXCEPT !.cancelled = @ \cup {tk.id}]
  /\ Upd(t, Finish(tk, "ok"))
  /\ Then(t)
  /\ UNCHANGED <<backend, timer, clock, models, settings, nextSchedId, hist, faults>>

\* ---- GET /api/scheduled-prices and GET /api/scheduled-prices/model/:modelId
\* Mutant of Pending: the entries of the registry, applied or not.
PendingOrApplied(sc) == DOMAIN sc

\* The filter of getAllScheduledPrices and getScheduledPricesByModel.
Pending(sc) == {i \in DOMAIN sc : ~sc[i].applied}

\* The orders in which a storage returns the rows ids: Map (insertion) order
\* with MemStorage, any order from a SELECT without ORDER BY.
RowOrders(ids) == IF backend = "mem" THEN {Ascending(ids)} ELSE Permutations_(ids)

\* One element of a result: the row, and for getAllScheduledPrices the
\* item's actual price.
Listed(id, sp, currentPrice) == [id |-> id, sp |-> sp, currentPrice |-> currentPrice]

\* The handler starts.  scope = "": getAllScheduledPrices selects the rows
\* and goes on to look up their models; otherwise getScheduledPricesByModel
\* returns the rows of the model.
StartList(t) ==
  /\ FreeSlot(t)
  /\ \E scope \in {""} \cup Items :
       LET ids == {i \in Pending(sched) : scope = "" \/ sched[i].modelId = scope}
           tk == [Idle EXCEPT !.op = "list", !.item = scope,
                              !.solo = \A u \in TaskIds \ {t} : tasks[u].pc = "idle"] IN
       \E order \in RowOrders(ids) :
         LET rows == [j \in 1..Len(order) |-> Listed(order[j], sched[order[j]], None)] IN
         IF scope # "" THEN Upd(t, Finish([tk EXCEPT !.out = rows], "ok"))
         ELSE IF rows = <<>> THEN Upd(t, Finish(tk, "ok"))
         ELSE Upd(t, [tk EXCEPT !.list = rows, !.idx = 1, !.pc = "l_join"])
  /\ Then(t)
  /\ UNCHANGED <<backend, timer, clock, models, settings, sched, nextSchedId, hist, faults, audit>>

\* const model = this.models.get(sp.modelId) / await this.getModelById(sp.modelId);
\* if (model) result.push({..., currentPrice: model.actualPrice, ...})
ListJoin(t) ==
  LET tk == tasks[t]
      e == tk.list[tk.idx]
      out == IF e.sp.modelId \in DOMAIN models
             THEN Append(tk.out, Listed(e.id, e.sp, Some(models[e.sp.modelId].act)))
             ELSE tk.out IN
  /\ At(t, "l_join")
  /\ Upd(t, IF tk.idx < Len(tk.list)
            THEN [tk EXCEPT !.out = out, !.idx = tk.idx + 1]
            ELSE Finish([tk EXCEPT !.out = out], "ok"))
  /\ Then(t)
  /\ UNCHANGED <<backend, timer, clock, models, settings, sched, nextSchedId, hist, faults, audit>>

\* ---- POST /api/scheduled-prices
\* The route's validation, then the model lookup.
StartCreate(t, scheds, dates) ==
  /\ FreeSlot(t)
  /\ nextSchedId + Cardinality({u \in TaskIds : tasks[u].pc = "k_ins"}) <= scheds
  /\ \E item \in Items, price \in SchedPrices, eff \in dates :
       LET tk == [Idle EXCEPT !.op = "create", !.item = item, !.price = price, !.eff = eff] IN
       IF price < 0 \/ eff <= clock THEN Upd(t, Finish(tk, "InvalidArgument"))
       ELSE IF item \notin DOMAIN models THEN Upd(t, Finish(tk, "NotFound"))
       ELSE Upd(t, [tk EXCEPT !.pc = "k_ins"])
  /\ Then(t)
  /\ UNCHANGED <<backend, timer, clock, models, settings, sched, nextSchedId, hist, faults, audit>>

\* createScheduledPrice
createScheduledPrice(sc, id, modelId, scheduledPrice, effectiveDate) ==
  [x \in DOMAIN sc \cup {id} |->
     IF x = id
     THEN [modelId |-> modelId, scheduledPrice |-> scheduledPrice,
           effectiveDate |-> effectiveDate, createdAt |-> clock, applied |-> FALSE]
     ELSE sc[x]]

\* Mutant of CreateInsert: the id is the number of stored entries plus one.
CreateInsertCountsEntries(t) ==
  LET tk == tasks[t]
      id == Cardinality(DOMAIN sched) + 1 IN
  /\ At(t, "k_ins")
  /\ sched' = createScheduledPrice(sched, id, tk.item, tk.price, tk.eff)
  /\ nextSchedId' = nextSchedId + 1
  /\ Upd(t, Finish([tk EXCEPT !.id = id], "ok"))
  /\ Then(t)
  /\ UNCHANGED <<backend, timer, clock, models, settings, hist, faults, audit>>

\* const id = this.scheduledPriceId++ (serial id in Postgres), then the insert.
CreateInsert(t) ==
  LET tk == tasks[t] IN
  /\ At(t, "k_ins")
  /\ sched' = createScheduledPrice(sched, nextSchedId, tk.item, tk.price, tk.eff)
  /\ nextSchedId' = nextSchedId + 1
  /\ Upd(t, Finish([tk EXCEPT !.id = nextSchedId], "ok"))
  /\ Then(t)
  /\ UNCHANGED <<backend, timer, clock, models, settings, hist, faults, audit>>

\* ---- POST /api/refresh-prices
\* Mutant of calculateSuggestedPrice: the percentage is not divided by 100.
calculateSuggestedPriceWhole(openRouterPrice, s) ==
  openRouterPrice * (1 + s.pct) + s.flat

\* calculateSuggestedPrice with the settings row it read
calculateSuggestedPrice(openRouterPrice, s) ==
  (openRouterPrice * (100 + s.pct)) \div 100 + s.flat

DefaultSettings == [pct |-> DefaultPercentageMarkup, flat |-> DefaultFlatFeeMarkup]

\* The lists the price source may return: some of the items, each with a
\* reference price.
FeedsOf(items, refs) ==
  {f \in Arrangements({[id |-> i, ref |-> r, sug |-> 0] : i \in items, r \in refs},
                      Cardinality(items)) :
     f # <<>> /\ \A j, k \in 1..Len(f) : j # k => f[j].id # f[k].id}

Feeds == FeedsOf(FeedItems, RefPrices)

WideFeeds == FeedsOf(Items, WideRefPrices)

BothFeeds == FeedsOf(Items, RefPrices)

\* Mutant of StartRefresh: a failed fetch is reported but the refresh goes on
\* with a feed.
StartRefreshGoesOn(t, feeds) ==
  /\ FreeSlot(t)
  /\ \E f \in feeds :
       LET n == Cardinality({j \in 1..Len(f) : f[j].id \notin DOMAIN models}) IN
       /\ Room(n)
       /\ \E r \in {"", "Unavailable"} :
            Upd(t, [Idle EXCEPT !.op = "refresh", !.pc = "f_set", !.list = f, !.idx = 1,
                                !.rsv = n, !.res = r])
  /\ Yield(t)
  /\ UNCHANGED <<backend, timer, clock, models, settings, sched, nextSchedId, hist, faults, audit>>

\* axios.get(...): the list the price source returns, or its failure.
StartRefresh(t, feeds) ==
  /\ FreeSlot(t)
  /\ \/ \E f \in feeds :
          LET n == Cardinality({j \in 1..Len(f) : f[j].id \notin DOMAIN models}) IN
          /\ Room(n)
          /\ Upd(t, [Idle EXCEPT !.op = "refresh", !.pc = "f_set", !.list = f, !.idx = 1,
                                 !.rsv = n])
     \/ Upd(t, Finish([Idle EXCEPT !.op = "refresh"], "Unavailable"))
  /\ Yield(t)
  /\ UNCHANGED <<backend, timer, clock, models, settings, sched, nextSchedId, hist, faults, audit>>

\* fetchOpenRouterPrices after the settings row s was read for entry idx.
Priced(tk, s) ==
  LET l == [tk.list EXCEPT ![tk.idx].sug = calculateSuggestedPrice(tk.list[tk.idx].ref, s)] IN
  IF tk.idx < Len(tk.list)
  THEN [tk EXCEPT !.list = l, !.idx = tk.idx + 1, !.pc = "f_set"]
  ELSE [tk EXCEPT !.list = l, !.idx = 1, !.pc = IF tk.op = "refresh" THEN "r_get" ELSE "g_new"]

\* The code that awaited getPriceSettings() goes on with the row it got
\* (row number k, values s): fetchOpenRouterPrices prices the next model,
\* updatePriceSettings goes on to its UPDATE, and the loop of POST
\* /api/price-settings has the suggested price of its model.
AfterSettings(tk, k, s) ==
  IF tk.op \in {"refresh", "read"} THEN Priced(tk, s)
  ELSE IF tk.pc \in {"s_get", "s_getins"} THEN [tk EXCEPT !.id = k, !.pc = "s_upd"]
  ELSE [tk EXCEPT !.sug = calculateSuggestedPrice(tk.list[tk.idx].ref, s), !.pc = "s_write"]

SettingsPcs == {"f_set", "s_get", "s_set"}

InsertPc(pc) == IF pc = "f_set" THEN "f_setins" ELSE IF pc = "s_get" THEN "s_getins" ELSE "s_setins"

\* getPriceSettings().  MemStorage returns this.settings.  Postgres selects
\* the rows and takes results[0] (no ORDER BY: any of them); with no row it
\* goes on to insert the default.
getPriceSettings(t) ==
  LET tk == tasks[t] IN
  /\ tk.pc \in SettingsPcs
  /\ cpu \in {0, t}
  /\ IF settings = <<>>
     THEN Upd(t, [tk EXCEPT !.pc = InsertPc(tk.pc)])
     ELSE \E k \in 1..Len(settings) : Upd(t, AfterSettings(tk, k, settings[k]))
  /\ Then(t)
  /\ UNCHANGED <<backend, timer, clock, models, settings, sched, nextSchedId, hist, faults, audit>>

\* PostgresStorage.getPriceSettings: INSERT the default row, RETURNING it.
SettingsInsert(t) ==
  LET tk == tasks[t] IN
  /\ tk.pc \in {InsertPc(pc) : pc \in SettingsPcs}
  /\ cpu \in {0, t}
  /\ settings' = Append(settings, DefaultSettings)
  /\ Upd(t, AfterSettings(tk, Len(settings) + 1, DefaultSettings))
  /\ Then(t)
  /\ UNCHANGED <<backend, timer, clock, models, sched, nextSchedId, hist, faults, audit>>

\* The route's loop after one model of the list is done.
NextModel(tk) ==
  IF tk.idx < Len(tk.list)
  THEN [tk EXCEPT !.idx = tk.idx + 1, !.pc = "r_get", !.m = None]
  ELSE Finish(tk, "ok")

\* const existingModel = await storage.getModelById(model.id)
RefreshGet(t) ==
  LET tk == tasks[t]
      id == tk.list[tk.idx].id IN
  /\ At(t, "r_get")
  /\ IF id \in DOMAIN models
     THEN Upd(t, [tk EXCEPT !.m = Some(models[id]), !.item = id, !.pc = "r_upd"])
     ELSE Upd(t, [tk EXCEPT !.m = None, !.item = id, !.pc = "r_new"])
  /\ Then(t)
  /\ UNCHANGED <<backend, timer, clock, models, settings, sched, nextSchedId, hist, faults, audit>>

\* updateModel(id, model): the fields of `model` replace those of the row.
updateModel(ms, id, model) ==
  [ms EXCEPT ![id] = [ref |-> IF "ref" \in DOMAIN model THEN model.ref ELSE @.ref,
                      sug |-> IF "sug" \in DOMAIN model THEN model.sug ELSE @.sug,
                      act |-> IF "act" \in DOMAIN model THEN model.act ELSE @.act]]

\* Mutant of RefreshUpdate: updateModel(id, model), the fetched record whose
\* actualPrice is its suggestedPrice.
RefreshUpdateResetsActual(t) ==
  LET tk == tasks[t]
      e == tk.list[tk.idx] IN
  /\ At(t, "r_upd")
  /\ models' = updateModel(models, e.id, [ref |-> e.ref, sug |-> e.sug, act |-> e.sug])
  /\ audit' = [audit EXCEPT !.byUpdate[e.id] = FALSE]
  /\ Upd(t, NextModel(tk))
  /\ Then(t)
  /\ UNCHANGED <<backend, timer, clock, settings, sched, nextSchedId, hist, faults>>

\* updateModel(id, {...model, actualPrice: existingModel.actualPrice})
RefreshUpdate(t) ==
  LET tk == tasks[t]
      e == tk.list[tk.idx] IN
  /\ At(t, "r_upd")
  /\ models' = updateModel(models, e.id, [ref |-> e.ref, sug |-> e.sug, act |-> Get(tk.m).act])
  /\ audit' = [audit EXCEPT !.byUpdate[e.id] = FALSE]
  /\ Upd(t, NextModel(tk))
  /\ Then(t)
  /\ UNCHANGED <<backend, timer, clock, settings, sched, nextSchedId, hist, faults>>

\* createModel(model): the new row has actualPrice = suggestedPrice.
createModel(ms, id, model) ==
  [x \in DOMAIN ms \cup {id} |-> IF x = id THEN model ELSE ms[x]]

RefreshCreate(t) ==
  LET tk == tasks[t]
      e == tk.list[tk.idx] IN
  /\ At(t, "r_new")
  /\ IF backend = "pg" /\ e.id \in DOMAIN models
     THEN Upd(t, Finish(tk, "Internal")) /\ UNCHANGED <<models, audit>>
     ELSE /\ models' = createModel(models, e.id, [ref |-> e.ref, sug |-> e.sug, act |-> e.sug])
          /\ audit' = [audit EXCEPT !.byUpdate[e.id] = FALSE, !.origin[e.id] = "refresh",
                                     !.first[e.id] = e.sug]
          /\ Upd(t, [tk EXCEPT !.price = e.sug, !.pc = "r_hist"])
  /\ Then(t)
  /\ UNCHANGED <<backend, timer, clock, settings, sched, nextSchedId, hist, faults>>

\* Mutant of RefreshHistory: the entry's previousPrice is the new price.
RefreshHistoryNoZero(t) ==
  LET tk == tasks[t] IN
  /\ At(t, "r_hist")
  /\ hist' = createPriceHistory(hist, tk.item, tk.price, tk.price, "initial_creation", 0)
  /\ Upd(t, NextModel([tk EXCEPT !.rsv = tk.rsv - 1]))
  /\ Then(t)
  /\ UNCHANGED <<backend, timer, clock, models, settings, sched, nextSchedId, faults, audit>>

\* createPriceHistory({previousPrice: 0, newPrice: newModel.actualPrice, ...})
RefreshHistory(t) ==
  LET tk == tasks[t] IN
  /\ At(t, "r_hist")
  /\ hist' = createPriceHistory(hist, tk.item, 0, tk.price, "initial_creation", 0)
  /\ Upd(t, NextModel([tk EXCEPT !.rsv = tk.rsv - 1]))
  /\ Then(t)
  /\ UNCHANGED <<backend, timer, clock, models, settings, sched, nextSchedId, faults, audit>>

\* ---- GET /api/model-prices
\* const modelPrices = await storage.getAllModels(): the catalog as it is,
\* or, when it is empty, its population from the price source.
StartRead(t) ==
  /\ FreeSlot(t)
  /\ LET tk == [Idle EXCEPT !.op = "read"] IN
     IF models = <<>> THEN Upd(t, [tk EXCEPT !.pc = "g_fetch"]) ELSE Upd(t, Finish(tk, "ok"))
  /\ Then(t)
  /\ UNCHANGED <<backend, timer, clock, models, settings, sched, nextSchedId, hist, faults, audit>>

\* const openRouterModels = await fetchOpenRouterPrices(): axios.get(...)
ReadFetch(t, feeds) ==
  LET tk == tasks[t] IN
  /\ At(t, "g_fetch")
  /\ \/ \E f \in feeds : Upd(t, [tk EXCEPT !.pc = "f_set", !.list = f, !.idx = 1])
     \/ Upd(t, Finish(tk, "Internal"))
  /\ Yield(t)
  /\ UNCHANGED <<backend, timer, clock, models, settings, sched, nextSchedId, hist, faults, audit>>

\* await storage.createModel(model) for one model of the list: no history
\* entry is written.  MemStorage sets the row whether or not there is one.
ReadCreate(t) ==
  LET tk == tasks[t]
      e == tk.list[tk.idx] IN
  /\ At(t, "g_new")
  /\ IF backend = "pg" /\ e.id \in DOMAIN models
     THEN Upd(t, Finish(tk, "Internal")) /\ UNCHANGED <<models, audit>>
     ELSE /\ models' = createModel(models, e.id, [ref |-> e.ref, sug |-> e.sug, act |-> e.sug])
          /\ audit' = IF e.id \in DOMAIN models
                      THEN [audit EXCEPT !.byUpdate[e.id] = FALSE]
                      ELSE [audit EXCEPT !.byUpdate[e.id] = FALSE, !.origin[e.id] = "read",
                                         !.first[e.id] = e.sug]
          /\ Upd(t, IF tk.idx < Len(tk.list) THEN [tk EXCEPT !.idx = tk.idx + 1]
                    ELSE [tk EXCEPT !.pc = "g_all"])
  /\ Then(t)
  /\ UNCHANGED <<backend, timer, clock, settings, sched, nextSchedId, hist, faults>>

\* const newModelPrices = await storage.getAllModels(), and the response.
ReadAll(t) ==
  LET tk == tasks[t] IN
  /\ At(t, "g_all")
  /\ Upd(t, Finish(tk, "ok"))
  /\ Then(t)
  /\ UNCHANGED <<backend, timer, clock, models, settings, sched, nextSchedId, hist, faults, audit>>

\* ---- POST /api/price-settings
\* Mutant of ValidBody: flatFeeMarkup is not validated.
ValidBodyPctOnly(body) ==
  /\ IsSome(body.pct) \/ IsSome(body.flat)
  /\ IsSome(body.pct) => Get(body.pct) >= 0

\* The route's validation: a field must be provided, and a provided field
\* must parse to a number >= 0.
ValidBody(body) ==
  /\ IsSome(body.pct) \/ IsSome(body.flat)
  /\ IsSome(body.pct) => Get(body.pct) >= 0
  /\ IsSome(body.flat) => Get(body.flat) >= 0

\* updatePriceSettings: the provided fields replace those of row k.  MemStorage
\* replaces this.settings at once, Postgres first reads the row to update.
updatePriceSettings(rows, k, body) ==
  [rows EXCEPT ![k] = [pct |-> IF IsSome(body.pct) THEN Get(body.pct) ELSE @.pct,
                       flat |-> IF IsSome(body.flat) THEN Get(body.flat) ELSE @.flat]]

StartSettings(t, bodies) ==
  /\ FreeSlot(t)
  /\ \E body \in bodies :
       LET tk == [Idle EXCEPT !.op = "settings", !.body = body,
                              !.solo = \A u \in TaskIds \ {t} : tasks[u].pc = "idle"] IN
       IF ~ValidBody(body) THEN Upd(t, Finish(tk, "InvalidArgument")) /\ UNCHANGED settings
       ELSE IF backend = "mem"
       THEN /\ settings' = updatePriceSettings(settings, 1, body)
            /\ Upd(t, [tk EXCEPT !.id = 1, !.pc = "s_all"])
       ELSE Upd(t, [tk EXCEPT !.pc = "s_get"]) /\ UNCHANGED settings
  /\ Then(t)
  /\ UNCHANGED <<backend, timer, clock, models, sched, nextSchedId, hist, faults, audit>>

\* UPDATE price_settings SET ... WHERE id = existingSettings.id
SettingsUpdate(t) ==
  LET tk == tasks[t] IN
  /\ At(t, "s_upd")
  /\ settings' = updatePriceSettings(settings, tk.id, tk.body)
  /\ Upd(t, [tk EXCEPT !.pc = "s_all"])
  /\ Then(t)
  /\ UNCHANGED <<backend, timer, clock, models, sched, nextSchedId, hist, faults, audit>>

\* const models = await storage.getAllModels().  The order is that of the
\* Map or of a SELECT without ORDER BY; the model keeps no order of the
\* catalog and takes any.
SettingsModels(t) ==
  LET tk == tasks[t] IN
  /\ At(t, "s_all")
  /\ \E order \in Permutations_(DOMAIN models) :
       LET list == [j \in 1..Len(order) |->
                      [id |-> order[j], ref |-> models[order[j]].ref, sug |-> 0]] IN
       IF list = <<>> THEN Upd(t, Finish(tk, "ok"))
       ELSE Upd(t, [tk EXCEPT !.list = list, !.idx = 1, !.pc = "s_set"])
  /\ Then(t)
  /\ UNCHANGED <<backend, timer, clock, models, settings, sched, nextSchedId, hist, faults, audit>>

\* await storage.updateModel(model.id, { suggestedPrice }), and the loop.
SettingsWrite(t) ==
  LET tk == tasks[t]
      id == tk.list[tk.idx].id IN
  /\ At(t, "s_write")
  /\ IF id \notin DOMAIN models
     THEN Upd(t, Finish(tk, "Internal")) /\ UNCHANGED models
     ELSE /\ models' = updateModel(models, id, [sug |-> tk.sug])
          /\ Upd(t, IF tk.idx < Len(tk.list)
                    THEN [tk EXCEPT !.idx = tk.idx + 1, !.pc = "s_set"]
                    ELSE Finish(tk, "ok"))
  /\ Then(t)
  /\ UNCHANGED <<backend, timer, clock, settings, sched, nextSchedId, hist, faults, audit>>

\* ---- a database call fails (PostgresStorage): the awaited promise rejects.
DbFail(t) ==
  LET tk == tasks[t] IN
  /\ backend = "pg"
  /\ faults < MaxFaults
  /\ cpu = 0
  /\ tk.pc \notin {"idle", "done"}
  /\ faults' = faults + 1
  /\ Upd(t, Throw(tk, "Internal"))
  /\ Then(t)
  /\ UNCHANGED <<backend, timer, clock, models, settings, sched, nextSchedId, hist, audit>>

\* ------------------------------------------------------- specification
RefreshSteps(t, feeds) ==
  \/ StartRefresh(t, feeds) \/ getPriceSettings(t) \/ SettingsInsert(t) \/ RefreshGet(t)
  \/ RefreshUpdate(t) \/ RefreshCreate(t) \/ RefreshHistory(t)

UpdateSteps(t) == UpdateRead(t) \/ UpdateHistory(t) \/ UpdateWrite(t)

ApplySteps(t) == StartApply(t) \/ ApplyRead(t) \/ ApplyMark(t) \/ StartSweep(t)

CreateSteps(t, scheds, dates) == StartCreate(t, scheds, dates) \/ CreateInsert(t)

CancelSteps(t) == StartCancel(t) \/ CancelDelete(t)

ReadSteps(t, feeds) ==
  \/ StartRead(t) \/ ReadFetch(t, feeds) \/ getPriceSettings(t) \/ SettingsInsert(t)
  \/ ReadCreate(t) \/ ReadAll(t)

SettingsSteps(t, bodies) ==
  StartSettings(t, bodies) \/ SettingsUpdate(t) \/ SettingsModels(t) \/ SettingsWrite(t)

ListSteps(t) == StartList(t) \/ ListJoin(t)

\* What the requests of a specification are drawn from: with handlers in
\* flight together, and with one request served at a time.
Narrow == [bodies |-> SameBodies, feeds |-> Feeds, scheds |-> NarrowSched, dates |-> NearDates]
Serial == [bodies |-> PctBodies, feeds |-> Feeds, scheds |-> NarrowSched, dates |-> NearDates]

Step(t, in) ==
  \/ Return(t)
  \/ RefreshSteps(t, in.feeds)
  \/ StartEdit(t)
  \/ UpdateSteps(t)
  \/ ApplySteps(t)
  \/ CreateSteps(t, in.scheds, in.dates)
  \/ CancelSteps(t)
  \/ SettingsSteps(t, in.bodies)

Next == Tick \/ \E t \in TaskIds : Step(t, Narrow)

\* Both storages, every handler, up to NumTasks of them in flight, no failing
\* database call.  The administrator saves the settings form unchanged.
Spec == Init /\ [][Next]_vars

\* The same handlers one at a time: no request arrives while another is
\* being served.  The administrator changes the percentage markup.
SeqNext == Tick \/ Step(1, Serial)

SeqSpec == Init /\ [][SeqNext]_vars

\* The handlers of the scheduled changes (refresh, create, cancel, apply,
\* sweep), with database calls of PostgresStorage that may fail.
FaultInit == Init

FaultNext ==
  \/ Tick
  \/ \E t \in TaskIds :
       \/ Return(t)
       \/ RefreshSteps(t, Feeds)
       \/ UpdateSteps(t)
       \/ ApplySteps(t)
       \/ CreateSteps(t, NarrowSched, NearDates)
       \/ CancelSteps(t)
       \/ DbFail(t)

FaultSpec == FaultInit /\ [][FaultNext]_vars

\* The catalog served one request at a time: the catalog read with its
\* initial population, refreshes with the wider feeds, and manual edits.
CatalogNext ==
  \/ Return(1)
  \/ ReadSteps(1, WideFeeds)
  \/ RefreshSteps(1, WideFeeds)
  \/ StartEdit(1)
  \/ UpdateSteps(1)

CatalogSpec == Init /\ [][CatalogNext]_vars

\* The administration of the markup: refreshes and settings updates, up to
\* NumTasks of them in flight, with every kind of request body.
AdminNext ==
  \E t \in TaskIds :
    \/ Return(t)
    \/ RefreshSteps(t, Feeds)
    \/ SettingsSteps(t, SetBodies)

AdminSpec == Init /\ [][AdminNext]_vars

\* The markup calculator on its own: refreshes, one at a time, over a store
\* whose settings row holds any of CalcSettings (or, with PostgresStorage,
\* no row yet), with feeds that price the item at any of CalcRefPrices.
CalcPcts == {0, 25, 100}
CalcFlats == {0, 20}
CalcRefPrices == {0, 1000, 2500}
CalcSettings == {[pct |-> p, flat |-> f] : p \in CalcPcts, f \in CalcFlats}
CalcFeeds == FeedsOf(FeedItems, CalcRefPrices)

CalcInit ==
  /\ backend \in Backends
  /\ clock = 0
  /\ models = <<>>
  /\ settings \in {<<s>> : s \in CalcSettings} \cup (IF backend = "pg" THEN {<<>>} ELSE {})
  /\ sched = <<>>
  /\ nextSchedId = 1
  /\ hist = <<>>
  /\ tasks = [t \in TaskIds |-> Idle]
  /\ cpu = 0
  /\ faults = 0
  /\ timer = "boot"
  /\ audit = [catWrites |-> [i \in SchedIds |-> 0], marks |-> [i \in SchedIds |-> 0],
              won |-> [i \in SchedIds |-> 0], entries |-> [i \in SchedIds |-> 0],
              setWrites |-> [i \in Items |-> 0], byUpdate |-> [i \in Items |-> FALSE],
              lastSet |-> [i \in Items |-> -1], origin |-> [i \in Items |-> ""],
              first |-> [i \in Items |-> -1], cancelled |-> {}, initial |-> ""]

CalcNext == Return(1) \/ RefreshSteps(1, CalcFeeds)

CalcSpec == CalcInit /\ [][CalcNext]_vars

\* The same with a price source that may report a negative price
\* (parseFloat(model.pricing?.input) takes any number the response holds).
SignedRefPrices == {-100, 1000}
SignedFeeds == FeedsOf(FeedItems, SignedRefPrices)

SignedNext == Return(1) \/ RefreshSteps(1, SignedFeeds)

SignedSpec == CalcInit /\ [][SignedNext]_vars

\* The registry of scheduled changes: creations (up to MaxSched of them) and
\* cancellations in flight together, over a catalog that refreshes fill.
RegistryNext ==
  \/ Tick
  \/ \E t \in TaskIds :
       \/ Return(t)
       \/ RefreshSteps(t, Feeds)
       \/ CreateSteps(t, MaxSched, NearDates)
       \/ CancelSteps(t)

RegistrySpec == Init /\ [][RegistryNext]_vars

\* The readers of the registry next to its writers: creations, applications,
\* sweeps, cancellations and the two list requests, in flight together.
PendingNext ==
  \/ Tick
  \/ \E t \in TaskIds :
       \/ Return(t)
       \/ RefreshSteps(t, Feeds)
       \/ CreateSteps(t, MaxSched, NearDates)
       \/ ApplySteps(t)
       \/ UpdateSteps(t)
       \/ CancelSteps(t)
       \/ ListSteps(t)

PendingSpec == Init /\ [][PendingNext]_vars

\* The sweep, one handler or timer callback at a time: the first catalog
\* read fills the catalog with both items, then up to SweepSched creations
\* with near and far effective dates, single applications and sweeps.
SweepNext ==
  \/ Tick
  \/ Return(1)
  \/ ReadSteps(1, BothFeeds)
  \/ CreateSteps(1, SweepSched, FarDates)
  \/ ApplySteps(1)
  \/ UpdateSteps(1)

SweepSpec == Init /\ [][SweepNext]_vars

\* The same with database calls of PostgresStorage that may fail.
SweepFaultNext == SweepNext \/ DbFail(1)

SweepFaultSpec == Init /\ [][SweepFaultNext]_vars

\* An application that fails and is tried again, one request at a time over
\* PostgresStorage or MemStorage: the catalog read fills the catalog, then a
\* creation, manual edits, single applications and sweeps, with a database
\* call that may fail.
RetryNext ==
  \/ Tick
  \/ Return(1)
  \/ ReadSteps(1, Feeds)
  \/ CreateSteps(1, NarrowSched, NearDates)
  \/ StartEdit(1)
  \/ UpdateSteps(1)
  \/ ApplySteps(1)
  \/ DbFail(1)

RetrySpec == Init /\ [][RetryNext]_vars

\* The batch edit, one request at a time: the catalog read fills the catalog
\* with the item of the feed (the other item stays unknown), then edits with
\* up to WideBatch entries.
BatchNext ==
  \/ Return(1)
  \/ ReadSteps(1, Feeds)
  \/ StartWideEdit(1)
  \/ UpdateSteps(1)

BatchSpec == Init /\ [][BatchNext]_vars

\* Settings updates next to manual edits: the first slot serves the catalog
\* read and the settings updates that change the percentage, one after the
\* other; the second slot serves manual edits, which so start while a
\* request of the first slot is in flight and may outlast it.
MarkupNext ==
  \/ Return(1)
  \/ ReadSteps(1, Feeds)
  \/ SettingsSteps(1, PctBodies)
  \/ Return(2)
  \/ StartEdit(2)
  \/ UpdateSteps(2)

MarkupSpec == Init /\ [][MarkupNext]_vars

\* The scheduler next to the requests that feed it: the catalog read, a
\* creation, single applications, sweeps by request and the timer's checks,
\* up to NumTasks of them in flight.
TimerSteps(t) ==
  TimerInitial(t) \/ TimerInterval(t) \/ ApplyRead(t) \/ ApplyMark(t) \/ UpdateSteps(t)

TimerNext ==
  \/ Tick
  \/ \E t \in TaskIds :
       \/ Return(t)
       \/ ReadSteps(t, Feeds)
       \/ CreateSteps(t, NarrowSched, NearDates)
       \/ StartSweep(t)
       \/ TimerSteps(t)

TimerSpec == Init /\ [][TimerNext]_vars

\* The scheduler as the only writer of prices, one callback or handler at a
\* time: the catalog read, creations, cancellations and the timer's checks,
\* with database calls that may fail.  The creations are as many as the
\* bounded ledger has room for when every failure costs one more entry.
LiveNext ==
  \/ Tick
  \/ Return(1)
  \/ ReadSteps(1, Feeds)
  \/ CreateSteps(1, MaxHist - MaxFaults, NearDates)
  \/ CancelSteps(1)
  \/ TimerSteps(1)
  \/ DbFail(1)

\* A call in flight is answered, and the callback or handler goes on.
LiveProgress ==
  \/ Return(1)
  \/ ReadFetch(1, Feeds) \/ getPriceSettings(1) \/ SettingsInsert(1) \/ ReadCreate(1) \/ ReadAll(1)
  \/ CreateInsert(1) \/ CancelDelete(1)
  \/ ApplyRead(1) \/ ApplyMark(1) \/ UpdateSteps(1)

\* The timers keep firing, whatever requests arrive in between, and every
\* call in flight is answered.
LiveSpec ==
  /\ Init /\ [][LiveNext]_vars
  /\ SF_vars(TimerInitial(1)) /\ SF_vars(TimerInterval(1))
  /\ WF_vars(LiveProgress)

\* ------------------------------------------------------------- readers
\* The ledger entries of one item, in insertion order.
HistoryOf(modelId) == SelectSeq(hist, LAMBDA h : h.modelId = modelId)

\* The orders of s with changedAt descending: what ORDER BY changed_at DESC
\* may return.
NewestFirstOrders(s) ==
  {[k \in 1..Len(s) |-> s[p[k]]] : p \in
     {q \in Permutations_(1..Len(s)) :
        \A j, k \in 1..Len(s) : j < k => s[q[j]].changedAt >= s[q[k]].changedAt}}

\* Array.prototype.sort with (a, b) => b.changedAt - a.changedAt: stable, so
\* entries with the same changedAt stay in insertion order.
SortNewestFirst(s) ==
  CHOOSE r \in NewestFirstOrders(s) :
    \A j, k \in 1..Len(r) : (j < k /\ r[j].changedAt = r[k].changedAt) => r[j].id < r[k].id

\* getPriceHistoryByModel(modelId): the results the call may return.
getPriceHistoryByModel(modelId) ==
  IF modelId \notin DOMAIN models THEN {<<>>}
  ELSE IF backend = "mem" THEN {SortNewestFirst(HistoryOf(modelId))}
  ELSE NewestFirstOrders(HistoryOf(modelId))

\* ============================================================== claims
\* C1: apply(id) on a scheduled change that is already applied fails with
\* FailedPrecondition and writes nothing: a call that read applied = true
\* has ended with that error, without a history entry or a catalog write.
C1_ReapplyFails ==
  \A t \in TaskIds :
    (tasks[t].op = "apply" /\ IsSome(tasks[t].sp) /\ Get(tasks[t].sp).applied)
      => (tasks[t].pc = "done" /\ tasks[t].res = "FailedPrecondition" /\ tasks[t].w = 0)

\* C2: of the calls (sweeps and manual applies) that race on one scheduled
\* change, i.e. that all read it with applied = false, at most one succeeds,
\* and at most one 'scheduled' history entry is written for the change.
C2_AtMostOneWinner ==
  \A id \in SchedIds : audit.won[id] <= 1 /\ audit.entries[id] <= 1

\* C3: the applied flag is set only after the catalog write of the same call:
\* changes are never marked more often than written, an applied entry has
\* been marked, and the call that marks has written the catalog; so a call
\* whose catalog write failed leaves applied = false.
C3_AppliedAfterCatalogWrite ==
  /\ \A id \in SchedIds :
       /\ audit.marks[id] <= audit.catWrites[id]
       /\ (id \in DOMAIN sched /\ sched[id].applied) => audit.marks[id] >= 1
  /\ \A t \in TaskIds : tasks[t].pc = "a_mark" => tasks[t].w = 2
  /\ \A t \in TaskIds :
       (tasks[t].op \in {"apply", "sweep"} /\ tasks[t].pc = "done" /\ tasks[t].res # "ok"
          /\ tasks[t].id \in DOMAIN sched /\ audit.marks[tasks[t].id] = 0)
         => ~sched[tasks[t].id].applied

\* C3 witness: an apply whose catalog call failed between the history insert
\* and the catalog update has ended with the error, and the entry is still
\* unapplied.
C3_Witness ==
  \E t \in TaskIds :
    /\ tasks[t].op = "apply" /\ tasks[t].pc = "done" /\ tasks[t].res = "Internal"
    /\ tasks[t].w = 1
    /\ tasks[t].id \in DOMAIN sched /\ ~sched[tasks[t].id].applied

\* The entry that apply(id) of task record tk must have appended last.
AppliedEntry(tk) ==
  /\ tk.item \in DOMAIN models
  /\ tk.price = Get(tk.sp).scheduledPrice
  /\ models[tk.item].act = tk.price
  /\ Len(hist) = Get(tk.before).nh + 1
  /\ LET h == hist[Len(hist)] IN
       /\ h.modelId = tk.item
       /\ h.previousPrice = Get(tk.before).act
       /\ h.newPrice = tk.price
       /\ h.changeSource = "scheduled"

\* C4: a successful apply of an unapplied change, run on its own, sets the
\* item's actualPrice to the scheduledPrice, appends exactly one history entry
\* (actualPrice before, scheduledPrice, 'scheduled') and sets applied.
C4_ApplyEffect ==
  \A t \in TaskIds :
    LET tk == tasks[t] IN
    (tk.op \in {"apply", "sweep"} /\ IsSome(tk.sp) /\ ~Get(tk.sp).applied) =>
      /\ tk.pc = "a_mark" => AppliedEntry(tk)
      /\ (tk.pc = "done" /\ tk.res = "ok") =>
           AppliedEntry(tk) /\ tk.id \in DOMAIN sched /\ sched[tk.id].applied

\* C4 witness: the scenario of the specification: 12.70, a change to 15.00,
\* applied by a sweep.
C4_Witness ==
  \E t \in TaskIds :
    /\ tasks[t].op = "sweep" /\ tasks[t].pc = "done" /\ tasks[t].count = 1
    /\ Get(tasks[t].before).act = 1270 /\ models[tasks[t].item].act = 1500
    /\ hist[Len(hist)].previousPrice = 1270 /\ hist[Len(hist)].newPrice = 1500

SetActualEntries(i) ==
  {k \in 1..Len(hist) : hist[k].modelId = i /\ hist[k].changeSource \in {"manual", "scheduled"}}

\* C5: the catalog never shows a price written by setActualPrice without the
\* history entry for it: every catalog write follows its history entry, a
\* call that has written the catalog has its entry in the ledger, and every
\* actual price that was entered or scheduled is some entry's newPrice.
C5_HistoryBeforeCatalog ==
  /\ \A i \in Items : audit.setWrites[i] <= Cardinality(SetActualEntries(i))
  /\ \A i \in DOMAIN models :
       models[i].act \in (EditPrices \cup SchedPrices) =>
         \E k \in SetActualEntries(i) : hist[k].newPrice = models[i].act
  /\ \A t \in TaskIds :
       tasks[t].w = 2 =>
         \E k \in SetActualEntries(tasks[t].item) :
           /\ k > Get(tasks[t].before).nh
           /\ hist[k].newPrice = tasks[t].price
           /\ hist[k].changeSource = tasks[t].src

\* C5 witness: the one intermediate state allowed: the history entry is
\* written and the catalog still shows the old price.
C5_Witness ==
  \E t \in TaskIds :
    /\ tasks[t].pc = "u_write" /\ tasks[t].w = 1
    /\ models[tasks[t].item].act # tasks[t].price
    /\ hist[Len(hist)].newPrice = tasks[t].price

Quiescent == \A t \in TaskIds : tasks[t].pc \in {"idle", "done"}

\* C6: after concurrent setActualPrice or apply calls on one item have
\* completed, the history entries they wrote for the item form a chain (each
\* previousPrice is the newPrice of the entry before it) and the price they
\* left in the catalog is the newPrice of the last one.
C6_HistoryChain ==
  Quiescent =>
    \A i \in DOMAIN models :
      LET hs == SelectSeq(HistoryOf(i), LAMBDA h : h.changeSource \in {"manual", "scheduled"}) IN
      /\ \A k \in 2..Len(hs) : hs[k].previousPrice = hs[k - 1].newPrice
      /\ (hs # <<>> /\ audit.byUpdate[i]) => models[i].act = hs[Len(hs)].newPrice

\* C7: setActualPrice on an unknown item fails with NotFound and writes
\* nothing: a call goes past its lookup only for an item of the catalog, and
\* a call that ended NotFound wrote no history entry and no price (the item
\* has no catalog row and no ledger entry).
C7_UnknownItemNotFound ==
  \A t \in TaskIds :
    LET tk == tasks[t] IN
    /\ tk.pc \in {"u_hist", "u_write"} => tk.item \in DOMAIN models
    /\ (tk.op = "edit" /\ tk.pc = "done" /\ IsSome(tk.before) /\ tk.item \notin DOMAIN models) =>
         tk.res = "NotFound" /\ tk.w = 0
    /\ (tk.op = "edit" /\ tk.pc = "done" /\ tk.res = "NotFound") =>
         /\ tk.w = 0
         /\ tk.item \notin DOMAIN models
         /\ \A k \in 1..Len(hist) : hist[k].modelId # tk.item

\* C7 witness: an edit of an item that is not in the catalog has ended
\* NotFound while the catalog and the ledger hold other items' data.
C7_Witness ==
  \E t \in TaskIds :
    /\ tasks[t].op = "edit" /\ tasks[t].pc = "done" /\ tasks[t].res = "NotFound"
    /\ tasks[t].item \notin DOMAIN models /\ tasks[t].price >= 0
    /\ models # <<>> /\ hist # <<>>

\* C8: setActualPrice with a negative price fails with InvalidArgument and
\* changes nothing, and no actual price is ever negative.
C8_NegativeRejected ==
  /\ \A t \in TaskIds :
       (tasks[t].op = "edit" /\ \E j \in 1..Len(tasks[t].list) : tasks[t].list[j].price < 0)
         => (tasks[t].pc = "done" /\ tasks[t].res = "InvalidArgument" /\ tasks[t].w = 0)
  /\ \A i \in DOMAIN models : models[i].act >= 0

\* C9: after a successful setActualPrice(id, p, 'manual'), run on its own,
\* the first element of getHistory(id) has newPrice = p and previousPrice =
\* the actual price before the call.
C9_NewestFirst ==
  \A t \in TaskIds :
    LET tk == tasks[t] IN
    (tk.op = "edit" /\ tk.pc = "done" /\ tk.res = "ok" /\ tk.w = 2) =>
      \A r \in getPriceHistoryByModel(tk.item) :
        /\ r # <<>>
        /\ r[1].newPrice = tk.price
        /\ r[1].previousPrice = Get(tk.before).act

\* C10: the ledger is append-only: every step keeps every entry as it is.
C10_AppendOnly ==
  [][/\ Len(hist') >= Len(hist)
     /\ \A k \in 1..Len(hist) : hist'[k] = hist[k]]_vars

\* C10 witness: a ledger with an initial, a manual and a scheduled entry.
C10_Witness ==
  /\ Len(hist) >= 3
  /\ \E k \in 1..Len(hist) : hist[k].changeSource = "manual"
  /\ \E k \in 1..Len(hist) : hist[k].changeSource = "scheduled"

\* The entries that record the first price of item i with the given label.
InitialEntries(i, label) ==
  {k \in 1..Len(hist) : /\ hist[k].modelId = i
                        /\ hist[k].previousPrice = 0
                        /\ hist[k].newPrice = audit.first[i]
                        /\ hist[k].changeSource = label}

\* C11: whichever handler created an item (a refresh, or the population of
\* the empty catalog on its first read), once the handler has completed the
\* ledger has an entry with previousPrice = 0 and the item's first price.
C11_FirstPriceRecorded ==
  Quiescent =>
    \A i \in DOMAIN models :
      \E k \in 1..Len(hist) :
        hist[k].modelId = i /\ hist[k].previousPrice = 0 /\ hist[k].newPrice = audit.first[i]

\* A refresh has created item i and has not yet written its history entry.
Creating(i) ==
  \E t \in TaskIds : tasks[t].op = "refresh" /\ tasks[t].pc = "r_hist" /\ tasks[t].item = i

\* What C12 says of the step and the state it leads to, with the label the
\* initial entry carries.
RefreshCreates(label) ==
  \A i \in Items :
    /\ (i \notin DOMAIN models /\ i \in DOMAIN models') =>
         models'[i].act = models'[i].sug /\ audit'.first[i] = models'[i].act
    /\ (i \in DOMAIN models' /\ audit'.origin[i] = "refresh") =>
         LET n == Cardinality({k \in 1..Len(hist') :
                                 hist'[k].modelId = i /\ hist'[k].previousPrice = 0})
         IN IF Creating(i)' THEN n = 0 ELSE n = 1 /\ Cardinality(InitialEntries(i, label)') = 1

\* C12 as amended: an item that a refresh creates gets actualPrice =
\* suggestedPrice and exactly one history entry with previousPrice = 0,
\* newPrice = that price and changeSource = 'initial_creation'.
C12_InitialCreation == [][RefreshCreates("initial_creation")]_vars

\* C12 witness: a completed refresh has created an item whose only entry is
\* the initial one, while the item's actual price has since been edited.
C12_Witness ==
  \E i \in DOMAIN models :
    /\ audit.origin[i] = "refresh" /\ ~Creating(i)
    /\ Cardinality(InitialEntries(i, "initial_creation")) = 1
    /\ models[i].act # audit.first[i]

\* C12 as stated: the entry's changeSource is catalog_refresh_initial.
C12_CatalogRefreshInitial == [][RefreshCreates("catalog_refresh_initial")]_vars

\* The ids of the list a refresh has fetched.
Fetched(tk) == {tk.list[k].id : k \in 1..Len(tk.list)}

\* A step of the refresh handler of task t.
RefreshStep(t) == tasks[t].op = "refresh" \/ tasks'[t].op = "refresh"

\* C13: with one request at a time, a step of a refresh keeps every item of
\* the catalog, keeps the actualPrice of every item that exists, leaves an
\* item that is not in the fetched list as it is, and appends a history
\* entry only for the item the refresh has just created.
C13_RefreshFrame ==
  [][RefreshStep(1) =>
       /\ \A i \in DOMAIN models :
            /\ i \in DOMAIN models'
            /\ models'[i].act = models[i].act
            /\ i \notin Fetched(tasks'[1]) => models'[i] = models[i]
       /\ \A k \in Len(hist) + 1..Len(hist') :
            tasks[1].pc = "r_hist" /\ hist'[k].modelId = tasks[1].item]_vars

\* C13 witness: a refresh has completed over a catalog holding an item whose
\* actual price had been edited away from its suggested price and is in the
\* fetched list with a new reference price, and an item that is not in it.
C13_Witness ==
  /\ tasks[1].op = "refresh" /\ tasks[1].pc = "done" /\ tasks[1].res = "ok"
  /\ \E i, j \in DOMAIN models :
       /\ i \notin Fetched(tasks[1])
       /\ j \in Fetched(tasks[1])
       /\ audit.setWrites[j] > 0 /\ models[j].act # models[j].sug
       /\ models[j].sug # audit.first[j]

\* C14: once every handler has completed, the actual price of an item that
\* setActualPrice has written is the price of the last such write, also when
\* a refresh read the item before the write and wrote it back after.
C14_RefreshKeepsEdit ==
  Quiescent =>
    \A i \in DOMAIN models :
      audit.setWrites[i] > 0 => models[i].act = audit.lastSet[i]

\* C15: once every refresh and every settings update has completed, and
\* there is one settings record, every item's suggestedPrice is the markup of
\* its referencePrice under that record, also when the handlers overlapped.
C15_SuggestedFollowsSettings ==
  (Quiescent /\ Len(settings) = 1) =>
    \A i \in DOMAIN models :
      models[i].sug = calculateSuggestedPrice(models[i].ref, settings[1])

\* C17: there is never more than one settings record, whatever the
\* interleaving of the calls that read or update the settings.
C17_OneSettingsRecord == Len(settings) <= 1

\* A provided field of the body is negative.
NegativeField(body) ==
  \/ IsSome(body.pct) /\ Get(body.pct) < 0
  \/ IsSome(body.flat) /\ Get(body.flat) < 0

\* Row k of the settings changes as the body says: provided fields take the
\* body's value, the others keep theirs.
PartialUpdate(k, body) ==
  /\ settings'[k].pct = IF IsSome(body.pct) THEN Get(body.pct) ELSE settings[k].pct
  /\ settings'[k].flat = IF IsSome(body.flat) THEN Get(body.flat) ELSE settings[k].flat

\* C18: a settings update with a negative provided field ends with
\* InvalidArgument in the step that receives it and changes neither the
\* settings nor any item; a change of a settings record is the partial update
\* of a request without negative field; no record ever holds a negative
\* percentageMarkup or flatFeeMarkup.
C18_SettingsValidated ==
  [][/\ \A t \in TaskIds :
          (tasks[t].op = "idle" /\ tasks'[t].op = "settings" /\ NegativeField(tasks'[t].body)) =>
             /\ tasks'[t].pc = "done" /\ tasks'[t].res = "InvalidArgument"
             /\ settings' = settings /\ models' = models
     /\ \A k \in 1..Len(settings) :
          settings'[k] # settings[k] =>
             \E t \in TaskIds :
                /\ tasks'[t] # tasks[t] /\ tasks'[t].op = "settings"
                /\ ~NegativeField(tasks'[t].body)
                /\ PartialUpdate(k, tasks'[t].body)
     /\ \A k \in 1..Len(settings') : settings'[k].pct >= 0 /\ settings'[k].flat >= 0]_vars

\* C18 witness: after an update that provided only percentageMarkup (the
\* flat fee kept its default) and recomputed the item, a request with a valid
\* percentageMarkup and a negative flatFeeMarkup has been rejected.
C18_Witness ==
  /\ settings = <<[pct |-> 50, flat |-> DefaultFlatFeeMarkup]>>
  /\ "m1" \in DOMAIN models
  /\ models["m1"].sug = calculateSuggestedPrice(models["m1"].ref, settings[1])
  /\ \E t \in TaskIds :
       /\ tasks[t].pc = "done" /\ tasks[t].res = "InvalidArgument"
       /\ tasks[t].body = [pct |-> Some(50), flat |-> Some(-1)]

\* Task t, a settings update no other handler overlapped, takes this step.
SoloSettingsStep(t) ==
  tasks'[t] # tasks[t] /\ tasks'[t].op = "settings" /\ tasks'[t].solo

\* C16: a settings update that runs alone appends no history entry and
\* leaves every actualPrice as it is, and when it has completed there is a
\* settings record holding the fields it provided under which every item's
\* suggestedPrice is the markup of its referencePrice.
C16_RecomputeAll ==
  [][\A t \in TaskIds :
       SoloSettingsStep(t) =>
         /\ hist' = hist
         /\ DOMAIN models' = DOMAIN models
         /\ \A i \in DOMAIN models : models'[i].act = models[i].act
         /\ (tasks'[t].pc = "done" /\ tasks'[t].res = "ok") =>
              \E k \in 1..Len(settings') :
                /\ IsSome(tasks'[t].body.pct) => settings'[k].pct = Get(tasks'[t].body.pct)
                /\ IsSome(tasks'[t].body.flat) => settings'[k].flat = Get(tasks'[t].body.flat)
                /\ \A i \in DOMAIN models' :
                     models'[i].sug = calculateSuggestedPrice(models'[i].ref, settings'[k])]_vars

\* C19: every entry of the registry was created before its effective date,
\* has a non-negative price and names an item of the catalog.
C19_EntriesWellFormed ==
  \A id \in DOMAIN sched :
    /\ sched[id].createdAt < sched[id].effectiveDate
    /\ sched[id].scheduledPrice >= 0
    /\ sched[id].modelId \in DOMAIN models

\* C20: an entry that a step adds to the registry has applied = false and an
\* id that no entry has or had before: ids handed out so far are below the
\* id counter, the new id is not, and the counter never goes back, also
\* after entries have been deleted.
C20_FreshIds ==
  [][/\ \A id \in DOMAIN sched' \ DOMAIN sched :
          /\ ~sched'[id].applied
          /\ id >= nextSchedId
          /\ \A j \in DOMAIN sched : j < id
     /\ nextSchedId' >= nextSchedId
     /\ \A id \in DOMAIN sched' : id < nextSchedId']_vars

\* C20 witness: after the first entry was cancelled, a create has stored an
\* unapplied entry under the next id, and id 1 is not in use.
C20_Witness ==
  /\ DOMAIN sched = {2}
  /\ ~sched[2].applied
  /\ \E t \in TaskIds : tasks[t].op = "create" /\ tasks[t].pc = "done" /\ tasks[t].id = 2

\* C22: a cancel of an id that is not in the registry ends with NotFound, a
\* cancel of an entry it reads as applied ends with FailedPrecondition and
\* leaves the registry as it is, any other cancel goes on to remove the entry
\* and ends with ok; no step of a cancel changes the catalog or the ledger.
C22_CancelOutcomes ==
  [][\A t \in TaskIds :
       (tasks'[t] # tasks[t] /\ tasks'[t].op = "cancel") =>
         LET id == tasks'[t].id IN
         /\ models' = models /\ hist' = hist
         /\ tasks[t].op = "idle" =>
              /\ sched' = sched
              /\ IF id \notin DOMAIN sched
                 THEN tasks'[t].pc = "done" /\ tasks'[t].res = "NotFound"
                 ELSE IF sched[id].applied
                 THEN tasks'[t].pc = "done" /\ tasks'[t].res = "FailedPrecondition"
                 ELSE tasks'[t].pc = "c_del"
         /\ tasks[t].op = "cancel" =>
              /\ tasks'[t].pc = "done" /\ tasks'[t].res = "ok"
              /\ DOMAIN sched' = DOMAIN sched \ {id}
              /\ \A j \in DOMAIN sched' : sched'[j] = sched[j]]_vars

\* C22 witness: a cancel of an applied entry has ended with
\* FailedPrecondition; the entry is in the registry and the ledger has the
\* entry of its application.
C22_Witness ==
  \E t \in TaskIds :
    /\ tasks[t].op = "cancel" /\ tasks[t].pc = "done" /\ tasks[t].res = "FailedPrecondition"
    /\ tasks[t].id \in DOMAIN sched /\ sched[tasks[t].id].applied
    /\ \E k \in 1..Len(hist) : hist[k].cause = tasks[t].id

\* C21: a list request that no other handler overlaps returns, without
\* repetition, exactly the entries of the registry with applied = false (of
\* the given item, for the filtered variant), each as it is stored;
\* listPending gives each the actual price the item has at the read.
C21_ListPending ==
  [][\A t \in TaskIds :
       (tasks[t].pc # "done" /\ tasks'[t].pc = "done" /\ tasks'[t].op = "list" /\ tasks'[t].solo) =>
         LET out == tasks'[t].out
             scope == tasks'[t].item
             want == {i \in DOMAIN sched' :
                        ~sched'[i].applied /\ (scope = "" \/ sched'[i].modelId = scope)} IN
         /\ tasks'[t].res = "ok"
         /\ {out[k].id : k \in 1..Len(out)} = want
         /\ Len(out) = Cardinality(want)
         /\ \A k \in 1..Len(out) :
              /\ out[k].sp = sched'[out[k].id]
              /\ scope = "" => out[k].currentPrice = Some(models'[out[k].sp.modelId].act)]_vars

\* C21 witness: listPending has returned the one pending entry of a registry
\* that also holds an applied one, with the price the application gave the
\* item.
C21_Witness ==
  \E t \in TaskIds :
    /\ tasks[t].op = "list" /\ tasks[t].pc = "done" /\ tasks[t].solo /\ tasks[t].item = ""
    /\ Len(tasks[t].out) = 1
    /\ Cardinality(DOMAIN sched) = 2
    /\ \E i \in DOMAIN sched :
         /\ sched[i].applied
         /\ tasks[t].out[1].currentPrice = Some(sched[i].scheduledPrice)
         /\ models[sched[i].modelId].act # audit.first[sched[i].modelId]

\* The ids of the rows of a result.
IdsOf(rows) == {rows[k].id : k \in 1..Len(rows)}

\* C23: a change whose cancel has succeeded is never in the registry again;
\* an apply request that arrives afterwards ends with NotFound, and a list
\* request that arrives afterwards neither selects nor returns it.
C23_CancelledStaysGone ==
  [][/\ \A id \in audit'.cancelled : id \notin DOMAIN sched'
     /\ \A t \in TaskIds :
          /\ (tasks[t].op = "idle" /\ tasks'[t].op = "apply" /\ tasks'[t].id \in audit.cancelled) =>
               tasks'[t].pc = "done" /\ tasks'[t].res = "NotFound"
          /\ (tasks[t].op = "idle" /\ tasks'[t].op = "list") =>
               (IdsOf(tasks'[t].list) \cup IdsOf(tasks'[t].out)) \cap audit.cancelled = {}
          /\ (tasks[t].op = "list" /\ tasks'[t].op = "list") =>
               /\ tasks'[t].list = tasks[t].list
               /\ IdsOf(tasks'[t].out) \subseteq IdsOf(tasks[t].out) \cup IdsOf(tasks[t].list)]_vars

\* C23 witness: after a cancel succeeded, an apply of the cancelled id has
\* ended with NotFound; the change has left no trace in the ledger, and
\* another entry is still pending.
C23_Witness ==
  \E id \in audit.cancelled : \E t \in TaskIds :
    /\ tasks[t].op = "apply" /\ tasks[t].pc = "done" /\ tasks[t].res = "NotFound"
    /\ tasks[t].id = id
    /\ \A k \in 1..Len(hist) : hist[k].cause # id
    /\ \E j \in DOMAIN sched : ~sched[j].applied

\* C24: a change whose cancel has succeeded has never written the catalog,
\* does not write it later, and is not in the registry, whatever apply or
\* sweep was in flight when it was cancelled.
C24_CancelledNeverApplied ==
  \A id \in audit.cancelled :
    audit.catWrites[id] = 0 /\ id \notin DOMAIN sched

\* C25: an entry with applied = true stays in the registry as it is.
C25_AppliedRetained ==
  [][\A id \in DOMAIN sched :
       sched[id].applied => id \in DOMAIN sched' /\ sched'[id] = sched[id]]_vars

\* The ids a sweep has selected.
Selected(tk) == {tk.list[k] : k \in 1..Len(tk.list)}

\* C26: with one handler at a time, a sweep selects exactly the entries with
\* applied = false and effectiveDate <= now; its steps leave every other
\* entry, and every item that no selected entry names, as they are; when it
\* has completed, every selected entry is applied, its item has the
\* scheduled price, and the ledger has the entry's record.
C26_SweepAppliesDue ==
  [][(tasks'[1].op = "sweep" /\ tasks'[1] # tasks[1]) =>
       LET sel == Selected(tasks'[1]) IN
       /\ tasks[1].op = "idle" =>
            sel = {i \in DOMAIN sched : ~sched[i].applied /\ sched[i].effectiveDate <= clock}
       /\ \A id \in DOMAIN sched \ sel : id \in DOMAIN sched' /\ sched'[id] = sched[id]
       /\ \A i \in DOMAIN models :
            (\A id \in sel : sched[id].modelId # i) => models'[i] = models[i]
       /\ tasks'[1].pc = "done" =>
            /\ tasks'[1].res = "ok" /\ tasks'[1].count = Cardinality(sel)
            /\ \A id \in sel :
                 /\ sched'[id].applied
                 /\ models'[sched'[id].modelId].act = sched'[id].scheduledPrice
                 /\ \E k \in 1..Len(hist') :
                      /\ hist'[k].cause = id /\ hist'[k].changeSource = "scheduled"
                      /\ hist'[k].newPrice = sched'[id].scheduledPrice]_vars

\* C26 witness: a sweep has applied the two due entries of one item and left
\* the entry of the other item, whose effective date is still ahead,
\* pending, and that item's price as it was.
C26_Witness ==
  /\ tasks[1].op = "sweep" /\ tasks[1].pc = "done" /\ tasks[1].count = 2
  /\ Cardinality(DOMAIN sched) = 3
  /\ \E id \in DOMAIN sched \ Selected(tasks[1]) :
       /\ ~sched[id].applied /\ sched[id].effectiveDate > clock
       /\ \A j \in Selected(tasks[1]) : sched[j].applied /\ sched[j].modelId # sched[id].modelId
       /\ models[sched[id].modelId].act = audit.first[sched[id].modelId]

\* C27: a database call that fails while a sweep applies an entry does not
\* end the sweep: the sweep goes on with its next entry or completes, and
\* completes with ok; every selected entry whose apply did not throw is then
\* applied and counted, and an entry whose apply threw is in the registry
\* with applied = false, so that the next sweep selects it again.
C27_SweepSurvivesFailure ==
  [][(tasks'[1].op = "sweep" /\ tasks'[1] # tasks[1]) =>
       LET sel == Selected(tasks'[1])
           bad == tasks'[1].skipped IN
       /\ tasks[1].op = "idle" =>
            sel = {i \in DOMAIN sched : ~sched[i].applied /\ sched[i].effectiveDate <= clock}
       /\ faults' # faults =>
            /\ tasks[1].id \in bad
            /\ tasks'[1].count = tasks[1].count
            /\ \/ tasks'[1].pc = "done" /\ tasks[1].idx = Len(tasks[1].list)
               \/ tasks'[1].pc = "a_read" /\ tasks'[1].idx = tasks[1].idx + 1
       /\ tasks'[1].pc = "done" =>
            /\ tasks'[1].res = "ok"
            /\ bad \subseteq sel
            /\ tasks'[1].count = Cardinality(sel \ bad)
            /\ \A id \in sel \ bad : sched'[id].applied
            /\ \A id \in bad :
                 /\ id \in DOMAIN sched' /\ ~sched'[id].applied
                 /\ sched'[id].effectiveDate <= clock']_vars

\* C27 witness: a sweep over two due entries has completed with ok after the
\* apply of its first entry failed; the second entry is applied and the
\* first is still pending.
C27_Witness ==
  /\ tasks[1].op = "sweep" /\ tasks[1].pc = "done" /\ tasks[1].res = "ok"
  /\ Len(tasks[1].list) = 2 /\ tasks[1].count = 1
  /\ tasks[1].skipped = {tasks[1].list[1]}
  /\ ~sched[tasks[1].list[1]].applied
  /\ sched[tasks[1].list[2]].applied

\* C28: the count a sweep reports is the number of scheduled changes that
\* this sweep moved from applied = false to applied = true, also while
\* another sweep or a manual apply is in flight: a step of a sweep adds one
\* to its count exactly when that step sets the applied flag of its current
\* entry from false to true.
C28_CountIsMoved ==
  [][\A t \in TaskIds :
       (tasks[t].op = "sweep" /\ tasks'[t].op = "sweep" /\ tasks'[t] # tasks[t]) =>
         LET id == tasks[t].id
             moved == /\ id \in DOMAIN sched /\ id \in DOMAIN sched'
                      /\ ~sched[id].applied /\ sched'[id].applied IN
         /\ tasks'[t].count \in {tasks[t].count, tasks[t].count + 1}
         /\ tasks'[t].count = tasks[t].count + 1 <=> moved]_vars

\* C29: when the fetch of the reference prices fails, the refresh ends there:
\* the step that reports the failure is the request's first, it changes
\* neither catalog, ledger, settings nor registry, and the handler is at its
\* response, so that it writes nothing afterwards.
C29_FetchFailureAborts ==
  [][\A t \in TaskIds :
       (tasks'[t].op = "refresh" /\ tasks'[t].res = "Unavailable") =>
         /\ tasks'[t].pc = "done"
         /\ tasks'[t] # tasks[t] =>
              /\ tasks[t].op = "idle"
              /\ models' = models /\ hist' = hist
              /\ settings' = settings /\ sched' = sched]_vars

\* C29 witness: a refresh has answered that the fetch failed, over a catalog
\* and a ledger that earlier requests filled.
C29_Witness ==
  \E t \in TaskIds :
    /\ tasks[t].op = "refresh" /\ tasks[t].pc = "done" /\ tasks[t].res = "Unavailable"
    /\ DOMAIN models # {} /\ Len(hist) > 0
    /\ \A i \in DOMAIN models : models[i].act = audit.first[i]

\* C30: the suggested price the calculator returns for reference price r
\* under settings (p, f) is r * (1 + p/100) + f; in hundredths, with p a
\* whole percentage: 100 * suggested = r * (100 + p) + 100 * f, for every
\* price the calculator has handed to a refresh and every price in the
\* catalog.
C30_CalculatorFormula ==
  /\ \A i \in DOMAIN models :
       /\ settings # <<>>
       /\ 100 * models[i].sug =
            models[i].ref * (100 + settings[1].pct) + 100 * settings[1].flat
  /\ (tasks[1].op = "refresh" /\ tasks[1].pc \in {"r_get", "r_upd", "r_new", "r_hist"}) =>
       /\ settings # <<>>
       /\ \A j \in 1..Len(tasks[1].list) :
            100 * tasks[1].list[j].sug =
              tasks[1].list[j].ref * (100 + settings[1].pct) + 100 * settings[1].flat

\* C30 witness: the example; reference price 10.00 under (25 %, 0.20) is in
\* the catalog with suggested price 12.70.
C30_Witness ==
  /\ "m1" \in DOMAIN models /\ settings # <<>>
  /\ models["m1"].ref = 1000
  /\ settings[1].pct = 25 /\ settings[1].flat = 20
  /\ models["m1"].sug = 1270

\* C31: the calculator rejects a negative reference price with
\* InvalidArgument: a refresh whose feed holds a negative price does not get
\* past the calculator other than to answer InvalidArgument, and no item of
\* the catalog has a negative reference price (and so a suggested price
\* computed from one).
C31_NegativeInputRejected ==
  /\ \A i \in DOMAIN models : models[i].ref >= 0
  /\ \A t \in TaskIds :
       (tasks[t].op = "refresh" /\ \E j \in 1..Len(tasks[t].list) : tasks[t].list[j].ref < 0) =>
         \/ tasks[t].pc \in {"f_set", "f_setins"}
         \/ tasks[t].pc = "done" /\ tasks[t].res = "InvalidArgument"

\* Task t is inside updateModelActualPrice for a scheduled change that it
\* read as not applied although an earlier apply of it has written the
\* catalog: a retry after a failure between the catalog write and the mark.
Retrying(t) ==
  /\ tasks[t].src = "scheduled" /\ tasks[t].pc \in {"u_hist", "u_write"}
  /\ ~Get(tasks[t].sp).applied
  /\ audit.catWrites[tasks[t].id] >= 1

\* The steps of a retry are without effect on the price: the history entry
\* it appends has previousPrice = newPrice = scheduledPrice, and its catalog
\* write leaves the item's actualPrice as it was.
RetryIsNoOp(t) ==
  LET tk == tasks[t]
      p == Get(tk.sp).scheduledPrice IN
  /\ (tk.pc = "u_hist" /\ tasks'[t].pc = "u_write") =>
       /\ Len(hist') = Len(hist) + 1
       /\ hist'[Len(hist')].modelId = tk.item
       /\ hist'[Len(hist')].previousPrice = p /\ hist'[Len(hist')].newPrice = p
  /\ (tk.pc = "u_write" /\ tasks'[t].pc # "u_write" /\ tk.item \in DOMAIN models') =>
       /\ models'[tk.item].act = p
       /\ models'[tk.item].act = models[tk.item].act

\* C32 as stated: the retry of an apply that failed between the catalog write
\* and the mark is a no-op-valued transition, whatever happened between the
\* failure and the retry.
C32_RetryNoOpAlways ==
  [][\A t \in TaskIds : Retrying(t) => RetryIsNoOp(t)]_vars

\* C32 as amended: the retry is a no-op-valued transition when the item's
\* actualPrice is still the scheduledPrice as the retry reads it.
C32_RetryNoOp ==
  [][\A t \in TaskIds :
       (Retrying(t) /\ Get(tasks[t].m).act = Get(tasks[t].sp).scheduledPrice) =>
         RetryIsNoOp(t)]_vars

\* C32 witness: an apply failed at the mark, the retry has completed: two
\* catalog writes and one mark for the change, and the ledger ends with the
\* entries (12.70 -> 15.00) and (15.00 -> 15.00) of the two attempts.
C32_Witness ==
  \E id \in DOMAIN sched :
    /\ sched[id].applied /\ faults = 1
    /\ audit.catWrites[id] = 2 /\ audit.marks[id] = 1
    /\ tasks[1].pc = "done" /\ tasks[1].res = "ok" /\ tasks[1].id = id
    /\ Len(hist) >= 2
    /\ hist[Len(hist)].cause = id /\ hist[Len(hist) - 1].cause = id
    /\ hist[Len(hist) - 1].previousPrice # hist[Len(hist) - 1].newPrice
    /\ hist[Len(hist)].previousPrice = sched[id].scheduledPrice
    /\ hist[Len(hist)].newPrice = sched[id].scheduledPrice

\* C34: the scheduler runs one initial check and only then the recurring
\* ones: the initial check starts once, from the pending setTimeout; a
\* recurring check starts only when the initial check has returned; and
\* when the initial check returns, with or without an error, the recurring
\* checks are scheduled.
C34_InitialThenPeriodic ==
  [][\A t \in TaskIds :
       /\ (tasks[t].op = "idle" /\ tasks'[t].by = "initial") =>
            /\ timer = "boot" /\ audit.initial = ""
            /\ \A u \in TaskIds : tasks[u].by = ""
       /\ (tasks[t].op = "idle" /\ tasks'[t].by = "interval") =>
            /\ audit.initial # ""
            /\ \A u \in TaskIds : tasks[u].by # "initial"
       /\ (tasks[t].by = "initial" /\ tasks'[t].op = "idle") =>
            /\ tasks[t].pc = "done"
            /\ timer' = "armed"]_vars

\* C34 witness: the initial check ended with an error, and a recurring check
\* after it has applied a due change.
C34_Witness ==
  \E t \in TaskIds :
    /\ audit.initial = "Internal" /\ timer = "armed"
    /\ tasks[t].by = "interval" /\ tasks[t].pc = "done" /\ tasks[t].res = "ok"
    /\ tasks[t].count = 1 /\ sched[tasks[t].list[1]].applied

\* C33: a scheduled change that is pending and due is eventually applied,
\* with a 'scheduled' history entry for it, unless it is cancelled: while
\* the timer keeps firing and database calls fail only finitely often, no
\* change stays pending forever once due.
C33_DueEventuallyApplied ==
  \A id \in SchedIds :
    (id \in DOMAIN sched /\ ~sched[id].applied /\ sched[id].effectiveDate <= clock)
      ~> \/ id \in audit.cancelled
         \/ /\ id \in DOMAIN sched /\ sched[id].applied
            /\ \E k \in 1..Len(hist) :
                 hist[k].cause = id /\ hist[k].changeSource = "scheduled"

\* C33 witness: a recurring check has applied a change at its second
\* attempt, after the first attempt failed.
C33_Witness ==
  \E id \in DOMAIN sched :
    /\ sched[id].applied /\ sched[id].effectiveDate <= clock
    /\ faults = 1 /\ audit.catWrites[id] >= 1 /\ audit.marks[id] = 1
    /\ tasks[1].by = "interval" /\ tasks[1].pc = "done" /\ tasks[1].count = 1
    /\ id \in Selected(tasks[1])
    /\ audit.initial = "ok"
    /\ Len(hist) = 2

\* C35: with one request served at a time (refreshes, manual edits, applies
\* and sweeps on a catalog that refreshes fill), whenever no request is in
\* flight every item with history entries has the newPrice of its last entry
\* as actualPrice, its first entry has previousPrice 0, and every later entry
\* has the newPrice of the entry before it as previousPrice.
C35_LedgerMatchesCatalog ==
  Quiescent =>
    \A i \in DOMAIN models :
      LET hs == HistoryOf(i) IN
      hs # <<>> =>
        /\ models[i].act = hs[Len(hs)].newPrice
        /\ hs[1].previousPrice = 0
        /\ \A k \in 2..Len(hs) : hs[k].previousPrice = hs[k - 1].newPrice

\* C35 witness: an item's ledger holds its creation by a refresh, a manual
\* edit and a scheduled change, and no request is in flight.
C35_Witness ==
  /\ Quiescent
  /\ \E i \in DOMAIN models :
       LET hs == HistoryOf(i) IN
       /\ Len(hs) = 3
       /\ {hs[k].changeSource : k \in 1..3} = {"initial_creation", "manual", "scheduled"}
       /\ models[i].act # audit.first[i]

\* C36: a manual edit in flight next to a settings update does not undo the
\* recompute: when no request is in flight, every item has the suggested
\* price of the settings in force, and an item whose price an edit wrote
\* last has that price.
C36_RecomputeSurvivesEdit ==
  Quiescent =>
    \A i \in DOMAIN models :
      /\ settings # <<>>
      /\ models[i].sug = calculateSuggestedPrice(models[i].ref, settings[1])
      /\ audit.byUpdate[i] => models[i].act = audit.lastSet[i]

\* C36 witness: an edit has completed that read the item before a settings
\* update recomputed its suggested price and wrote it afterwards; the item
\* has the edit's price and the recomputed suggested price.
C36_Witness ==
  /\ tasks[1].op = "idle"
  /\ tasks[2].op = "edit" /\ tasks[2].pc = "done" /\ tasks[2].res = "ok"
  /\ tasks[2].item \in DOMAIN models /\ IsSome(tasks[2].m)
  /\ Get(tasks[2].m).sug # models[tasks[2].item].sug
  /\ models[tasks[2].item].act = tasks[2].price
  /\ settings[1] # DefaultSettings
  /\ models[tasks[2].item].sug = calculateSuggestedPrice(models[tasks[2].item].ref, settings[1])

\* C37: a manual apply of a pending change does not look at the effective
\* date: it is not turned away, and when it completes the item has the
\* scheduled price and the change is applied; no sweep, then or when the
\* date has passed, selects an applied change or writes its price again.
C37_ManualApplyAnyDate ==
  [][/\ (tasks[1].op = "idle" /\ tasks'[1].op = "apply" /\ tasks'[1].id \in DOMAIN sched) =>
          tasks'[1].pc = "a_read"
     /\ (tasks[1].op = "apply" /\ tasks[1].pc = "a_mark" /\ tasks'[1].pc = "done") =>
          /\ tasks'[1].res = "ok"
          /\ sched'[tasks[1].id].applied
          /\ models'[tasks[1].item].act = sched'[tasks[1].id].scheduledPrice
     /\ (tasks[1].op = "idle" /\ tasks'[1].op = "sweep") =>
          \A id \in Selected(tasks'[1]) : ~sched[id].applied
     /\ (tasks[1].op = "sweep" /\ tasks[1].pc \in {"u_read", "u_hist", "u_write"}) =>
          ~sched[tasks[1].id].applied]_vars

\* C37 witness: a change was applied by hand before its effective date; the
\* date has passed and a sweep has completed without applying anything.
C37_Witness ==
  \E id \in DOMAIN sched :
    /\ sched[id].applied /\ sched[id].effectiveDate <= clock
    /\ \E k \in 1..Len(hist) : hist[k].cause = id /\ hist[k].changedAt < sched[id].effectiveDate
    /\ audit.catWrites[id] = 1 /\ audit.marks[id] = 1
    /\ models[sched[id].modelId].act = sched[id].scheduledPrice
    /\ tasks[1].op = "sweep" /\ tasks[1].pc = "done" /\ tasks[1].count = 0

\* The entries of list between positions a and b (exclusive) fail the
\* route's check.
SkippedBetween(list, a, b) == \A k \in (a + 1)..(b - 1) : list[k].price < 0

\* C38: the batch edit takes its entries in order and is not all-or-nothing.
\* It passes over the entries that fail the check without an error; at an
\* entry for an unknown item it stops with an error and writes nothing; a
\* step of it writes the row and the ledger entry of its current entry only;
\* and when it ends, every valid entry before the one it stopped at has its
\* price in the catalog and its entry in the ledger.
C38_BatchInOrder ==
  [][(tasks'[1].op = "edit" /\ tasks'[1] # tasks[1]) =>
       LET tk == tasks[1]
           nx == tasks'[1]
           list == nx.list IN
       /\ tk.op = "idle" =>
            /\ models' = models /\ hist' = hist
            /\ IF nx.pc = "done"
               THEN nx.res = "ok" /\ SkippedBetween(list, 0, Len(list) + 1)
               ELSE nx.idx \in 1..Len(list) /\ list[nx.idx].price >= 0
                    /\ SkippedBetween(list, 0, nx.idx)
       /\ (tk.pc = "u_read" /\ tk.item \notin DOMAIN models) =>
            /\ nx.pc = "done" /\ nx.res = "NotFound" /\ nx.idx = tk.idx
            /\ models' = models /\ hist' = hist
       /\ tk.op = "edit" =>
            /\ \A i \in DOMAIN models : i # tk.item => (i \in DOMAIN models' /\ models'[i] = models[i])
            /\ \A i \in Items : i # tk.item => audit'.setWrites[i] = audit.setWrites[i]
       /\ tk.pc = "u_write" =>
            /\ models'[tk.item].act = tk.price
            /\ IF nx.pc = "done"
               THEN nx.res = "ok" /\ SkippedBetween(list, tk.idx, Len(list) + 1)
               ELSE nx.idx > tk.idx /\ list[nx.idx].price >= 0
                    /\ SkippedBetween(list, tk.idx, nx.idx)
       /\ (tk.op = "edit" /\ nx.pc = "done") =>
            \A k \in 1..Len(list) :
              (list[k].price >= 0 /\ (k < nx.idx \/ (k = nx.idx /\ nx.res = "ok"))) =>
                /\ list[k].item \in DOMAIN models'
                /\ models'[list[k].item].act = list[k].price
                /\ \E h \in 1..Len(hist') :
                     /\ hist'[h].modelId = list[k].item /\ hist'[h].newPrice = list[k].price
                     /\ hist'[h].changeSource = "manual"]_vars

\* C38 witness: a batch whose first entry is valid and whose second names an
\* unknown item has ended with the error; the first entry's price is in the
\* catalog with its ledger entry, written by this batch.
C38_Witness ==
  /\ tasks[1].op = "edit" /\ tasks[1].pc = "done" /\ tasks[1].res = "NotFound"
  /\ Len(tasks[1].list) = 2 /\ tasks[1].idx = 2
  /\ tasks[1].list[2].item \notin DOMAIN models
  /\ tasks[1].list[1].item \in DOMAIN models
  /\ models[tasks[1].list[1].item].act = tasks[1].list[1].price
  /\ Len(hist) = 1 /\ hist[1].modelId = tasks[1].list[1].item
  /\ hist[1].newPrice = tasks[1].list[1].price /\ hist[1].changeSource = "manual"
====
